---- MODULE Spec2Model ----
(***************************************************************************)
(* A model of the IoT mock-data generator: the Schema Store (database.py), *)
(* the Data Points page (app_pages/data_points.py, bulk_upload.py), the    *)
(* single-source generator (app_pages/generator.py) and the three copies   *)
(* of the multi-source generator (pages/, app_pages/, app_main.py).        *)
(*                                                                         *)
(* Text is modelled as a tuple of one-character strings, so that strip,    *)
(* split, slug and the lexicographic order of rendered timestamps are      *)
(* computed, not assumed.  An instant is a record [day, sec, us]: day is   *)
(* the number of days after EpochDate, sec the second of the day and us    *)
(* the microsecond.                                                        *)
(***************************************************************************)
EXTENDS Integers, Sequences, FiniteSets, TLC

VARIABLES
    \* ---- Schema Store (SQLite tables) ----
    asset_types,        \* asset_types table: sequence of names, in rowid order
    data_points,        \* data_points table: sequence of rows, in rowid order
    dp_seq,             \* sqlite_sequence entry of data_points (AUTOINCREMENT)
    \* ---- Data Points page (st.session_state and what the run reported) ----
    show_add_form,
    editing_dp_id,
    dp_report,          \* what the last page action reported
    \* ---- single-source generator run ----
    gen_pc,             \* "idle" | "loop" | "done"
    gen_in,             \* the submitted form
    matching_dps,
    current_time,
    seq_id,
    all_packets,
    gen_report,         \* set of <<kind, text>> shown by the run
    gen_download,       \* the list offered for download, or NoDownload
    \* ---- multi-source generator run ----
    pld_inputs,         \* st.session_state.pld_inputs
    pld_frequencies,    \* st.session_state.pld_frequencies
    multi_in,           \* the submitted form (and which copy of the page ran)
    multi_packets,      \* all_packets of the run, as left by the handler
    has_errors,
    multi_report,       \* sequence of <<kind, asset_type>> shown by the run
    multi_download,     \* the list offered for download, or NoDownload
    \* ---- a function called on its own ----
    call,               \* the last call: [fn, args, result], or NoCall
    \* ---- two browser sessions on the Data Points page ----
    sessions            \* per session: where its script run stands

storeVars == <<asset_types, data_points, dp_seq>>
pageVars  == <<show_add_form, editing_dp_id, dp_report>>
genVars   == <<gen_pc, gen_in, matching_dps, current_time, seq_id, all_packets,
               gen_report, gen_download>>
multiVars == <<pld_inputs, pld_frequencies, multi_in, multi_packets, has_errors,
               multi_report, multi_download>>
apiVars   == <<call, sessions>>
vars == <<storeVars, pageVars, genVars, multiVars, apiVars>>

\* An optional value (a nullable column, a session key that may hold None, a
\* download that may not be offered) is None or Some(v).
None == <<>>
Some(v) == <<v>>
NoDownload == None

-----------------------------------------------------------------------------
(* Bounds of the model *)

MaxDay == 1            \* dates are EpochDate + 0 .. EpochDate + MaxDay
MaxTicks == 1440       \* a single-source request spans at most this many ticks
MaxId == 2             \* data point rows are inserted while the last id is below this

-----------------------------------------------------------------------------
(* Text *)

IsSpace(c) == c = " "

RECURSIVE LStrip(_)
LStrip(s) == IF s # <<>> /\ IsSpace(Head(s)) THEN LStrip(Tail(s)) ELSE s

RECURSIVE RStrip(_)
RStrip(s) == IF s # <<>> /\ IsSpace(s[Len(s)])
             THEN RStrip(SubSeq(s, 1, Len(s) - 1)) ELSE s

\* str.strip()
Strip(s) == RStrip(LStrip(s))

\* str.split(sep), for a one-character separator
RECURSIVE SplitAcc(_, _, _)
SplitAcc(s, sep, cur) ==
    IF s = <<>> THEN <<cur>>
    ELSE IF Head(s) = sep THEN <<cur>> \o SplitAcc(Tail(s), sep, <<>>)
    ELSE SplitAcc(Tail(s), sep, Append(cur, Head(s)))

Split(s, sep) == SplitAcc(s, sep, <<>>)

UpperChars == <<"A","B","C","D","E","F","G","H","I","J","K","L","M",
                "N","O","P","Q","R","S","T","U","V","W","X","Y","Z">>
LowerChars == <<"a","b","c","d","e","f","g","h","i","j","k","l","m",
                "n","o","p","q","r","s","t","u","v","w","x","y","z">>

\* the lower-case form of an ASCII letter, any other character as it is
AsciiLowerChar(c) ==
    IF \E i \in 1..Len(UpperChars) : UpperChars[i] = c
    THEN LowerChars[CHOOSE i \in 1..Len(UpperChars) : UpperChars[i] = c]
    ELSE c

\* str.lower() follows the Unicode case mapping; the letter outside ASCII
\* that the model writes is the capital E with acute
LowerChar(c) == IF c = "É" THEN "é" ELSE AsciiLowerChar(c)

\* str.lower()
Lower(s) == [i \in 1..Len(s) |-> LowerChar(s[i])]

\* SQL LOWER(): the built-in function of SQLite converts ASCII letters only
SqlLower(s) == [i \in 1..Len(s) |-> AsciiLowerChar(s[i])]

\* str.replace(" ", "_")
ReplaceSpace(s) == [i \in 1..Len(s) |-> IF s[i] = " " THEN "_" ELSE s[i]]

\* position of a character in the collating order (code point order of the
\* characters a rendered timestamp is made of)
CharOrder == <<"+", "-", "0", "1", "2", "3", "4", "5", "6", "7", "8", "9", ":", "T">>
Ord(c) == CHOOSE i \in 1..Len(CharOrder) : CharOrder[i] = c

\* Python's str < str: lexicographic by code point, a proper prefix is smaller
RECURSIVE StrLess(_, _)
StrLess(a, b) ==
    IF b = <<>> THEN FALSE
    ELSE IF a = <<>> THEN TRUE
    ELSE IF Head(a) = Head(b) THEN StrLess(Tail(a), Tail(b))
    ELSE Ord(Head(a)) < Ord(Head(b))

-----------------------------------------------------------------------------
(* datetime *)

SecondsPerDay == 86400
EpochDate == [y |-> 2023, m |-> 12, d |-> 31]

IsLeap(y) == (y % 4 = 0 /\ y % 100 # 0) \/ y % 400 = 0

DaysInMonth(y, m) ==
    IF m = 2 THEN (IF IsLeap(y) THEN 29 ELSE 28)
    ELSE IF m \in {4, 6, 9, 11} THEN 30 ELSE 31

NextDate(dt) ==
    IF dt.d < DaysInMonth(dt.y, dt.m) THEN [dt EXCEPT !.d = dt.d + 1]
    ELSE IF dt.m < 12 THEN [y |-> dt.y, m |-> dt.m + 1, d |-> 1]
    ELSE [y |-> dt.y + 1, m |-> 1, d |-> 1]

\* the calendar date of day number n (n days after EpochDate)
RECURSIVE DateOfDay(_)
DateOfDay(n) == IF n = 0 THEN EpochDate ELSE NextDate(DateOfDay(n - 1))

\* datetime.datetime.combine(date, datetime.time(h, mi))
Combine(day, h, mi) == [day |-> day, sec |-> h * 3600 + mi * 60, us |-> 0]

\* datetime.time.min and datetime.time.max
CombineMin(day) == [day |-> day, sec |-> 0, us |-> 0]
CombineMax(day) == [day |-> day, sec |-> SecondsPerDay - 1, us |-> 999999]

\* datetime + datetime.timedelta(seconds = n), n a whole number of seconds
AddSeconds(t, n) ==
    LET total == t.sec + n
    IN [day |-> t.day + (total \div SecondsPerDay),
        sec |-> total % SecondsPerDay,
        us  |-> t.us]

\* datetime <= datetime
TimeLeq(a, b) ==
    \/ a.day < b.day
    \/ a.day = b.day /\ a.sec < b.sec
    \/ a.day = b.day /\ a.sec = b.sec /\ a.us <= b.us

Digits == <<"0", "1", "2", "3", "4", "5", "6", "7", "8", "9">>
\* two digits without the leading zero
D2_NoPad(n) == IF n < 10 THEN <<Digits[n + 1]>> ELSE <<Digits[(n \div 10) + 1], Digits[(n % 10) + 1]>>
D2(n) == <<Digits[((n \div 10) % 10) + 1], Digits[(n % 10) + 1]>>
D4(n) == D2(n \div 100) \o D2(n % 100)

\* utils.format_timestamp: strftime('%Y-%m-%dT%H:%M:%S%z') with the fixed
\* +05:30 zone attached by replace(tzinfo=...); microseconds are not rendered
format_timestamp(t) ==
    LET dt == DateOfDay(t.day)
    IN D4(dt.y) \o <<"-">> \o D2(dt.m) \o <<"-">> \o D2(dt.d) \o <<"T">>
       \o D2(t.sec \div 3600) \o <<":">> \o D2((t.sec \div 60) % 60)
       \o <<":">> \o D2(t.sec % 60) \o <<"+", "0", "5", "3", "0">>

-----------------------------------------------------------------------------
(* Schema Store: database.py *)

Range(f) == {f[i] : i \in DOMAIN f}

T_DG    == <<"D","G">>
T_HVAC  == <<"H","V","A","C">>
T_SOLAR == <<"S","O","L","A","R"," ","I","n","v","e","r","t","e","r">>
T_SUB   == <<"S","u","b","-","M","e","t","e","r">>
T_TEMP  == <<"T","e","m","p"," ","S","e","n","s","o","r">>
T_HUM   == <<"H","u","m"," ","S","e","n","s","o","r">>

\* init_db: the default asset types, inserted into the empty table
default_types == <<T_DG, T_HVAC, T_SOLAR, T_SUB, T_TEMP, T_HUM>>

\* get_all_asset_types (the ORDER BY is not modelled: callers only test
\* membership or let the user pick one)
get_all_asset_types == Range(asset_types)

\* get_data_points_by_asset_type: the rows, in table order, whose decoded
\* asset_types list contains the target
get_data_points_by_asset_type(target_asset_type) ==
    SelectSeq(data_points, LAMBDA dp : target_asset_type \in Range(dp.asset_types))

\* A store the Data Points page can have produced: two rows entered through
\* the add form (the second one without identifiers).
SnapshotDataPoints ==
    << [id |-> 1, name |-> <<"F","u","e","l">>,
        identifiers |-> << <<"f","u","e","l">> >>,
        asset_types |-> <<T_DG>>, data_type |-> "float",
        range_min |-> Some(0), range_max |-> Some(100), string_options |-> None],
       [id |-> 2, name |-> <<"R","u","n"," ","S","t">>,
        identifiers |-> <<>>,
        asset_types |-> <<T_DG, T_HVAC>>, data_type |-> "string",
        range_min |-> None, range_max |-> None,
        string_options |-> Some(<<"O","N",","," ","O","F","F">>)] >>

InitStoreEmpty ==
    /\ asset_types = default_types
    /\ data_points = <<>>
    /\ dp_seq = 0

InitStoreSnapshot ==
    /\ asset_types = default_types
    /\ data_points = SnapshotDataPoints
    /\ dp_seq = 2

NoReport == [op |-> "none", kind |-> "none", what |-> "none", detail |-> <<>>]

NoCall == [fn |-> "none"]

Sess == {1, 2}
SessIdle == [pc |-> "idle"]

InitApi == call = NoCall /\ sessions = [s \in Sess |-> SessIdle]

InitPage ==
    /\ show_add_form = FALSE
    /\ editing_dp_id = None
    /\ dp_report = NoReport

-----------------------------------------------------------------------------
(* Packet assembly shared by the generators *)

\* the key is the slug of the name whatever the identifiers are
dp_key_SlugOnly(dp) == Lower(ReplaceSpace(dp.name))

\* the field key of a data point: its first identifier, else the slug of its name
dp_key(dp) ==
    IF dp.identifiers # <<>> THEN dp.identifiers[1]
    ELSE Lower(ReplaceSpace(dp.name))

\* The value utils.generate_mock_value(dp) draws is random; a packet records
\* which data point the value was drawn for.
SynthValue(dp) == [synth |-> dp.id]

\* dict[key] = value
DictSet(d, key, value) ==
    [k \in DOMAIN d \cup {key} |-> IF k = key THEN value ELSE d[k]]

\* for dp in matching_dps: d[key(dp)] = generate_mock_value(dp)
RECURSIVE FillParameters(_, _)
FillParameters(d, dps) ==
    IF dps = <<>> THEN d
    ELSE FillParameters(DictSet(d, dp_key(Head(dps)), SynthValue(Head(dps))), Tail(dps))

K_tmsp == <<"t","m","s","p">>
K_evc  == <<"e","v","c">>
K_tms  == <<"t","m","s">>

-----------------------------------------------------------------------------
(* Single-source generator: app_pages/generator.py, generator_page *)

P_1 == <<"P","1">>

GenPldChoices == {<<>>, P_1}
GenFreqs == {1, 45, 60}
Dates == 0..MaxDay

NoForm == [asset_type |-> None, pld_id |-> None, start_date |-> 0,
           end_date |-> 0, frequency_mins |-> 0]

InitGen ==
    /\ gen_pc = "idle"
    /\ gen_in = NoForm
    /\ matching_dps = <<>>
    /\ current_time = CombineMin(0)
    /\ seq_id = 0
    /\ all_packets = <<>>
    /\ gen_report = {}
    /\ gen_download = NoDownload

\* start_time = datetime.time(0, 0); end_time = datetime.time(23, 59)
start_datetime_of(start_date) == Combine(start_date, 0, 0)

\* the window ended at 23:00 of end_date
end_datetime_of_2300(end_date) == Combine(end_date, 23, 0)

end_datetime_of(end_date) == Combine(end_date, 23, 59)

\* seq_id advanced by two
NextSeqId_Skip(s) == s + 2

\* start_date = end_date rejected as well
DateOrderInvalid_Eq(start_date, end_date) == start_date >= end_date

\* `if not pld_id`
PldMissing(pld_id) == pld_id = <<>>

\* `elif start_date > end_date`
DateOrderInvalid(start_date, end_date) == start_date > end_date

\* `while current_time < end_datetime`
LoopCond_Strict(t, end_datetime) == t # end_datetime /\ TimeLeq(t, end_datetime)

\* `while current_time <= end_datetime`
LoopCond(t, end_datetime) == TimeLeq(t, end_datetime)

\* the tick not advanced
NextTick_Stay(t, frequency_mins) == t

\* `current_time += datetime.timedelta(minutes=frequency_mins)`
NextTick(t, frequency_mins) == AddSeconds(t, frequency_mins * 60)

\* `seq_id = 1` and `seq_id += 1`
FirstSeqId == 1
NextSeqId(s) == s + 1

\* the envelope packet with its top-level tms rendered from the start of
\* the tick's day
single_packet_json_DayTms(pld_id, t, seq, dps) ==
    [ver |-> "1.0", pld |-> pld_id, svc |-> "svc33338597",
     aid |-> "A173378384", eid |-> "2109801", dvt |-> "jvt1443",
     dvm |-> "JVT1443", evt |-> "EV", tms |-> format_timestamp(CombineMin(t.day)),
     evc |-> "300", seqid |-> seq, alt |-> None,
     ext |-> << [ver |-> "3.0",
                 sii |-> ("1" :> FillParameters(
                            (K_tmsp :> format_timestamp(t)) @@ (K_evc :> 300)
                                @@ (K_tms :> format_timestamp(t)), dps))] >>]

\* one envelope packet (the loop body up to all_packets.append)
single_packet_json(pld_id, t, seq, dps) ==
    LET sii_data ==
            FillParameters(
                (K_tmsp :> format_timestamp(t)) @@ (K_evc :> 300)
                    @@ (K_tms :> format_timestamp(t)),
                dps)
    IN [ver |-> "1.0", pld |-> pld_id, svc |-> "svc33338597",
        aid |-> "A173378384", eid |-> "2109801", dvt |-> "jvt1443",
        dvm |-> "JVT1443", evt |-> "EV", tms |-> format_timestamp(t),
        evc |-> "300", seqid |-> seq, alt |-> None,
        ext |-> << [ver |-> "3.0", sii |-> ("1" :> sii_data)] >>]

\* the rejected and the empty outcomes of `if submitted:` end the run at once
GenEnd(form, report) ==
    /\ gen_pc' = "done"
    /\ gen_in' = form
    /\ gen_report' = report
    /\ matching_dps' = <<>>
    /\ all_packets' = <<>>
    /\ seq_id' = 0
    /\ current_time' = CombineMin(0)
    /\ gen_download' = NoDownload

\* `if submitted:` up to the start of the while loop
GenSubmit ==
    /\ gen_pc \in {"idle", "done"}
    /\ get_all_asset_types # {}
    /\ \E a \in get_all_asset_types, p \in GenPldChoices,
          sd \in Dates, ed \in Dates, f \in GenFreqs :
          /\ ((ed - sd + 1) * 1440) \div f <= MaxTicks
          /\ LET form    == [asset_type |-> a, pld_id |-> p, start_date |-> sd,
                          end_date |-> ed, frequency_mins |-> f]
                 dps == get_data_points_by_asset_type(a)
             IN IF PldMissing(p)
                THEN GenEnd(form, {<<"error", "PLD ID is a required field.">>})
                ELSE IF DateOrderInvalid(sd, ed)
                THEN GenEnd(form, {<<"error", "End date must be after the start date.">>})
                ELSE IF dps = <<>>
                THEN GenEnd(form, {<<"info", "Generating data">>,
                                   <<"warning", "No data points found">>})
                ELSE /\ gen_pc' = "loop"
                     /\ gen_in' = form
                     /\ gen_report' = {<<"info", "Generating data">>}
                     /\ matching_dps' = dps
                     /\ all_packets' = <<>>
                     /\ current_time' = start_datetime_of(sd)
                     /\ seq_id' = FirstSeqId
                     /\ gen_download' = NoDownload
    /\ UNCHANGED <<storeVars, pageVars, multiVars, apiVars>>

\* one iteration of `while current_time <= end_datetime`
GenLoopIter ==
    /\ gen_pc = "loop"
    /\ LoopCond(current_time, end_datetime_of(gen_in.end_date))
    /\ all_packets' = Append(all_packets,
            single_packet_json(gen_in.pld_id, current_time, seq_id, matching_dps))
    /\ current_time' = NextTick(current_time, gen_in.frequency_mins)
    /\ seq_id' = NextSeqId(seq_id)
    /\ UNCHANGED <<gen_pc, gen_in, matching_dps, gen_report, gen_download>>
    /\ UNCHANGED <<storeVars, pageVars, multiVars, apiVars>>

\* the loop's exit and the report after it
GenLoopExit ==
    /\ gen_pc = "loop"
    /\ ~LoopCond(current_time, end_datetime_of(gen_in.end_date))
    /\ gen_pc' = "done"
    /\ IF all_packets = <<>>
       THEN /\ gen_report' = gen_report \cup {<<"warning", "No packets were generated">>}
            /\ gen_download' = NoDownload
       ELSE /\ gen_report' = gen_report \cup {<<"success", "Successfully generated">>}
            /\ gen_download' = Some(all_packets)
    /\ UNCHANGED <<gen_in, matching_dps, current_time, seq_id, all_packets>>
    /\ UNCHANGED <<storeVars, pageVars, multiVars, apiVars>>

NoMultiForm == [copy |-> "none", selected_asset_types |-> <<>>,
                start_date |-> 0, end_date |-> 0]

InitMultiIdle ==
    /\ pld_inputs = <<>>
    /\ pld_frequencies = <<>>
    /\ multi_in = NoMultiForm
    /\ multi_packets = <<>>
    /\ has_errors = FALSE
    /\ multi_report = <<>>
    /\ multi_download = NoDownload

InitGenSpec == InitStoreSnapshot /\ InitPage /\ InitGen /\ InitMultiIdle /\ InitApi
NextGen == GenSubmit \/ GenLoopIter \/ GenLoopExit
SpecGen == InitGenSpec /\ [][NextGen]_vars

-----------------------------------------------------------------------------
(* Claims about the single-source generator (SpecGen) *)

HasReport(kind) == \E r \in gen_report : r[1] = kind

\* C2: in one single-source run the k-th emitted envelope packet has
\* seqid = k (first 1, step 1, no gap or repeat), so the last seqid of the
\* delivered list equals the number of packets.
C2_SeqIdIsPosition ==
    /\ \A k \in 1..Len(all_packets) : all_packets[k].seqid = k
    /\ gen_download # NoDownload =>
          LET out == gen_download[1]
          IN /\ out[1].seqid = 1
             /\ \A k \in 1..(Len(out) - 1) : out[k + 1].seqid = out[k].seqid + 1
             /\ out[Len(out)].seqid = Len(out)

C2_Witness ==
    /\ gen_pc = "done"
    /\ gen_download # NoDownload
    /\ Len(gen_download[1]) = 24
    /\ gen_download[1][24].seqid = 24

\* the window of a request in seconds: start_of_day(start) to 23:59:00 of end
WindowSeconds(form) ==
    (form.end_date - form.start_date) * SecondsPerDay + 23 * 3600 + 59 * 60

\* the k-th instant (k = 0, 1, ...) of the fixed-interval sequence
FixedInstant(form, k) ==
    AddSeconds(CombineMin(form.start_date), k * form.frequency_mins * 60)

\* C3: a finished fixed-interval run emitted exactly the instants
\* start_of_day(start) + k*f minutes, k = 0..n-1, where n is the largest
\* count whose last instant is <= 23:59:00 of end_date (inclusive bound);
\* one day at f = 60 gives exactly 24 timestamps, 00:00 through 23:00.
C3_FixedIntervalSequence ==
    (gen_pc = "done" /\ matching_dps # <<>>) =>
        LET n == Len(all_packets)
            f == gen_in.frequency_mins
        IN /\ n >= 1
           /\ \A k \in 1..n : all_packets[k].tms = format_timestamp(FixedInstant(gen_in, k - 1))
           /\ (n - 1) * f * 60 <= WindowSeconds(gen_in)
           /\ n * f * 60 > WindowSeconds(gen_in)
           /\ (gen_in.start_date = gen_in.end_date /\ f = 60) =>
                 /\ n = 24
                 /\ all_packets[1].tms = format_timestamp(Combine(gen_in.start_date, 0, 0))
                 /\ all_packets[24].tms = format_timestamp(Combine(gen_in.start_date, 23, 0))

\* the run of one day at 60 minutes, ended at 23:00
C3_Witness ==
    /\ gen_pc = "done"
    /\ gen_in.frequency_mins = 60
    /\ gen_in.start_date = gen_in.end_date
    /\ Len(all_packets) = 24
    /\ all_packets[24].tms = format_timestamp(Combine(gen_in.end_date, 23, 0))

\* C8: single-source generation is blocking for the whole request: an empty
\* PLD id or start_date > end_date reports an error, builds no packet and
\* offers no output; start_date = end_date proceeds; an asset type without
\* matching DataPoints reports a warning and produces zero packets.
C8_SingleSourceBlocking ==
    /\ gen_pc = "loop" =>
          /\ gen_in.pld_id # <<>>
          /\ gen_in.start_date <= gen_in.end_date
    /\ gen_pc = "done" =>
          LET rejected == gen_in.pld_id = <<>> \/ gen_in.start_date > gen_in.end_date
              dps == get_data_points_by_asset_type(gen_in.asset_type)
          IN /\ rejected =>
                   /\ HasReport("error")
                   /\ ~HasReport("success")
                   /\ all_packets = <<>>
                   /\ gen_download = NoDownload
             /\ (~rejected /\ dps = <<>>) =>
                   /\ HasReport("warning")
                   /\ ~HasReport("error")
                   /\ all_packets = <<>>
                   /\ gen_download = NoDownload
             /\ (~rejected /\ dps # <<>>) =>
                   /\ ~HasReport("error")
                   /\ all_packets # <<>>
                   /\ gen_download = Some(all_packets)

\* start_date = end_date was accepted and ran to the end
C8_Witness ==
    /\ gen_pc = "done"
    /\ gen_in.pld_id # <<>>
    /\ gen_in.start_date = gen_in.end_date
    /\ gen_download # NoDownload
    /\ Len(gen_download[1]) = 32

-----------------------------------------------------------------------------
(* Multi-source generator: pages/multi_json_generator.py *)

P_1sp == <<" ","P","1"," ">>
P_2   == <<"P","2">>

\* the asset types offered to the multiselect in the model: two with data
\* points in the snapshot store and one without
MultiAssetChoices == {T_DG, T_HVAC, T_HUM}

\* st.multiselect returns the chosen options in the order they were chosen
MultiSelections ==
    {<<>>} \cup {<<a>> : a \in MultiAssetChoices}
           \cup {<<ab[1], ab[2]>> : ab \in {x \in MultiAssetChoices \X MultiAssetChoices :
                                                x[1] # x[2]}}

\* contents of the PLD text inputs of one asset type (one field at first,
\* more after "Add another PLD")
PldLists == { << <<>> >>, <<P_1>>, <<P_1sp, P_2>>, << <<" ">>, P_2 >>, << <<>>, <<" ">> >> }

\* the frequency number_input (min_value = 1), in minutes
MultiFreqs == {480, 1439, 1440}

\* every date pair, end before start included: the form does not relate them
MultiDatePairs == Dates \X Dates

\* [pld.strip() for pld in plds if pld.strip()]
CleanedPlds(plds) ==
    LET stripped == [i \in 1..Len(plds) |-> Strip(plds[i])]
    IN SelectSeq(stripped, LAMBDA x : x # <<>>)

\* (end_datetime - start_datetime).total_seconds(): s whole seconds (floor)
\* and us microseconds, the value being s + us / 10^6
total_seconds(end_datetime, start_datetime) ==
    LET ds  == (end_datetime.day - start_datetime.day) * SecondsPerDay
                   + end_datetime.sec - start_datetime.sec
        dus == end_datetime.us - start_datetime.us
    IN IF dus >= 0 THEN [s |-> ds, us |-> dus]
       ELSE [s |-> ds - 1, us |-> dus + 1000000]

\* total_seconds < interval_seconds, interval_seconds a whole number
TotalLess(total, interval_seconds) == total.s < interval_seconds

\* one packet more than the division gives
num_packets_of_PlusOne(total, interval_seconds) ==
    IF total.s < interval_seconds THEN 1
    ELSE total.s \div interval_seconds + 1

\* `if total_seconds < interval_seconds: 1 else int(total_seconds / interval_seconds)`
num_packets_of(total, interval_seconds) ==
    IF TotalLess(total, interval_seconds) THEN 1
    ELSE total.s \div interval_seconds

\* interval_seconds = frequency_minutes * 60
interval_seconds_of(frequency_minutes) == frequency_minutes * 60

\* the offsets counted from one interval instead of from zero
current_timestamp_of_NextSlot(start_datetime, i, interval_seconds) ==
    AddSeconds(start_datetime, (i + 1) * interval_seconds)

\* start_datetime + datetime.timedelta(seconds=i * interval_seconds)
current_timestamp_of(start_datetime, i, interval_seconds) ==
    AddSeconds(start_datetime, i * interval_seconds)

\* one flat packet
flat_packet(pld_id, asset_type, t, dps) ==
    [pld |-> pld_id, asset_type |-> asset_type,
     timestamp |-> format_timestamp(t),
     parameters |-> FillParameters(<<>>, dps)]

\* for i in range(num_packets): ... all_packets.append(packet)
RECURSIVE PldPackets(_, _, _, _, _, _, _)
PldPackets(pld_id, asset_type, dps, start_datetime, interval_seconds, i, n) ==
    IF i >= n THEN <<>>
    ELSE <<flat_packet(pld_id, asset_type,
                       current_timestamp_of(start_datetime, i, interval_seconds), dps)>>
         \o PldPackets(pld_id, asset_type, dps, start_datetime, interval_seconds, i + 1, n)

\* for pld_id in cleaned_plds: ...
RECURSIVE AssetPackets(_, _, _, _, _, _)
AssetPackets(cleaned_plds, asset_type, dps, start_datetime, interval_seconds, n) ==
    IF cleaned_plds = <<>> THEN <<>>
    ELSE PldPackets(Head(cleaned_plds), asset_type, dps, start_datetime, interval_seconds, 0, n)
         \o AssetPackets(Tail(cleaned_plds), asset_type, dps, start_datetime, interval_seconds, n)

\* the lookup taken to have found rows whatever it returned
NoDataPoints_Never(dps) == FALSE

\* `if not dps:`
NoDataPoints(dps) == dps = <<>>

\* dict.get(key, default)
DictGet(d, key, default) == IF key \in DOMAIN d THEN d[key] ELSE default

\* the body of `for asset_type in selected_asset_types`, run on the state
\* acc = [packets, has_errors, report] of the handler
ProcessAsset(asset_type, plds_of, freq_of, start_datetime, total, acc) ==
    LET cleaned_plds == CleanedPlds(DictGet(plds_of, asset_type, <<>>))
        dps == get_data_points_by_asset_type(asset_type)
        frequency_minutes == DictGet(freq_of, asset_type, 60)
        interval == interval_seconds_of(frequency_minutes)
    IN IF cleaned_plds = <<>>
       THEN [acc EXCEPT !.has_errors = TRUE,
                        !.report = Append(@, <<"error", "no PLD", asset_type>>)]
       ELSE IF NoDataPoints(dps)
       THEN [acc EXCEPT !.report = Append(@, <<"warning", "no data points", asset_type>>)]
       ELSE IF frequency_minutes <= 0
       THEN [acc EXCEPT !.has_errors = TRUE,
                        !.report = Append(@, <<"error", "frequency", asset_type>>)]
       ELSE [acc EXCEPT !.packets = @ \o
                AssetPackets(cleaned_plds, asset_type, dps, start_datetime,
                             interval, num_packets_of(total, interval))]

RECURSIVE ProcessAssets(_, _, _, _, _, _)
ProcessAssets(selected, plds_of, freq_of, start_datetime, total, acc) ==
    IF selected = <<>> THEN acc
    ELSE ProcessAssets(Tail(selected), plds_of, freq_of, start_datetime, total,
             ProcessAsset(Head(selected), plds_of, freq_of, start_datetime, total, acc))

\* the sort key of `all_packets.sort(key=lambda p: p['timestamp'])`
SortKeyLess(p, q) == StrLess(p.timestamp, q.timestamp)

\* a packet whose timestamp the list already holds is dropped
RECURSIVE InsertSorted_DropEqual(_, _)
InsertSorted_DropEqual(sorted, p) ==
    IF sorted = <<>> THEN <<p>>
    ELSE IF p.timestamp = Head(sorted).timestamp THEN sorted
    ELSE IF SortKeyLess(p, Head(sorted)) THEN <<p>> \o sorted
    ELSE <<Head(sorted)>> \o InsertSorted_DropEqual(Tail(sorted), p)

\* list.sort is stable: an element goes behind the elements that do not
\* compare greater than it
RECURSIVE InsertSorted(_, _)
InsertSorted(sorted, p) ==
    IF sorted = <<>> THEN <<p>>
    ELSE IF SortKeyLess(p, Head(sorted)) THEN <<p>> \o sorted
    ELSE <<Head(sorted)>> \o InsertSorted(Tail(sorted), p)

RECURSIVE SortByTimestamp(_)
SortByTimestamp(seq) ==
    IF seq = <<>> THEN <<>>
    ELSE InsertSorted(SortByTimestamp(SubSeq(seq, 1, Len(seq) - 1)), seq[Len(seq)])

\* the error state ignored when the output is offered
Deliverable_IgnoreErrors(errors, packets) == packets # <<>>

\* `if not has_errors and all_packets:`
Deliverable(errors, packets) == ~errors /\ packets # <<>>

\* the form as the run that handles the submit sees it; the widgets have
\* written the PLD texts and the frequencies into the session state
MultiForm(copy, selected, plds_of, freq_of, sd, ed) ==
    [copy |-> copy, selected_asset_types |-> selected,
     start_date |-> sd, end_date |-> ed]

\* `if submitted:` of pages/multi_json_generator.py, to the end of the page
MultiSubmitPages ==
    /\ multi_in = NoMultiForm
    /\ get_all_asset_types # {}
    /\ \E selected \in MultiSelections, dates \in MultiDatePairs :
       \E plds_of \in [Range(selected) -> PldLists],
          freq_of \in [Range(selected) -> MultiFreqs] :
          LET start_datetime == CombineMin(dates[1])
              end_datetime == CombineMax(dates[2])
              total == total_seconds(end_datetime, start_datetime)
              acc == ProcessAssets(selected, plds_of, freq_of, start_datetime, total,
                                   [packets |-> <<>>, has_errors |-> FALSE, report |-> <<>>])
          IN /\ multi_in' = MultiForm("pages", selected, plds_of, freq_of, dates[1], dates[2])
             /\ pld_inputs' = plds_of
             /\ pld_frequencies' = freq_of
             /\ has_errors' = acc.has_errors
             /\ IF Deliverable(acc.has_errors, acc.packets)
                THEN /\ multi_packets' = SortByTimestamp(acc.packets)
                     /\ multi_download' = Some(multi_packets')
                     /\ multi_report' = Append(acc.report, <<"success", "generated", None>>)
                ELSE /\ multi_packets' = acc.packets
                     /\ multi_download' = NoDownload
                     /\ multi_report' =
                           IF ~acc.has_errors
                           THEN Append(acc.report, <<"warning", "No packets were generated", None>>)
                           ELSE acc.report
    /\ UNCHANGED <<storeVars, pageVars, genVars, apiVars>>

\* a new browser session: st.session_state starts empty
MultiNewSession ==
    /\ multi_in # NoMultiForm
    /\ pld_inputs' = <<>>
    /\ pld_frequencies' = <<>>
    /\ multi_in' = NoMultiForm
    /\ multi_packets' = <<>>
    /\ has_errors' = FALSE
    /\ multi_report' = <<>>
    /\ multi_download' = NoDownload
    /\ UNCHANGED <<storeVars, pageVars, genVars, apiVars>>

InitMultiSpec == InitStoreSnapshot /\ InitPage /\ InitGen /\ InitMultiIdle /\ InitApi
NextMulti == MultiSubmitPages \/ MultiNewSession
SpecMulti == InitMultiSpec /\ [][NextMulti]_vars

-----------------------------------------------------------------------------
(* Multi-source generator, the copies in app_pages/multi_json_generator.py *)
(* and app_main.py: random packet count, random instants, shuffled output  *)

\* random.randint(5, 20)
RandMin == 5
RandMax == 20
MaxRandPackets == 5    \* the model draws at most this many packets per PLD

RandCounts == {n \in RandMin..RandMax : n <= MaxRandPackets}

\* random.uniform(0, total_seconds): the model draws one of the two ends of
\* the range, in whole seconds
RandOffsets(total) == {0} \cup (IF total.s >= 0 THEN {total.s} ELSE {})

\* the PLD inputs of the requests the model sends to these copies
RandPldLists == { << <<>> >>, <<P_1>>, << <<" ">>, P_2 >> }

\* for _ in range(num_packets): ... all_packets.append(packet), with the
\* drawn offsets given
RandPldPackets(pld_id, asset_type, dps, start_datetime, offsets) ==
    [i \in 1..Len(offsets) |->
        flat_packet(pld_id, asset_type, AddSeconds(start_datetime, offsets[i]), dps)]

\* random.shuffle(all_packets): the list permuted by perm
Shuffled(seq, perm) == [i \in 1..Len(seq) |-> seq[perm[i]]]

\* `if submitted:` of the shuffling copies, for a request with one selected
\* asset type; copy names the file
MultiSubmitRandom(copy) ==
    /\ multi_in = NoMultiForm
    /\ get_all_asset_types # {}
    /\ \E a \in MultiAssetChoices, plds \in RandPldLists, dates \in MultiDatePairs :
          LET start_datetime == CombineMin(dates[1])
              end_datetime == CombineMax(dates[2])
              total == total_seconds(end_datetime, start_datetime)
              cleaned_plds == CleanedPlds(plds)
              dps == get_data_points_by_asset_type(a)
              form == MultiForm(copy, <<a>>, a :> plds, <<>>, dates[1], dates[2])
          IN /\ multi_in' = form
             /\ pld_inputs' = (a :> plds)
             /\ pld_frequencies' = <<>>
             /\ IF cleaned_plds = <<>>
                THEN /\ has_errors' = TRUE
                     /\ multi_packets' = <<>>
                     /\ multi_download' = NoDownload
                     /\ multi_report' = << <<"error", "no PLD", a>> >>
                ELSE IF dps = <<>>
                THEN /\ has_errors' = FALSE
                     /\ multi_packets' = <<>>
                     /\ multi_download' = NoDownload
                     /\ multi_report' = << <<"warning", "no data points", a>>,
                                           <<"warning", "No packets were generated", None>> >>
                ELSE \E n \in RandCounts :
                     \E offsets \in [1..n -> RandOffsets(total)] :
                     \E perm \in Permutations(1..n) :
                        /\ has_errors' = FALSE
                        /\ multi_packets' =
                              Shuffled(RandPldPackets(cleaned_plds[1], a, dps,
                                                      start_datetime, offsets), perm)
                        /\ multi_download' = Some(multi_packets')
                        /\ multi_report' = << <<"success", "generated", None>> >>
    /\ UNCHANGED <<storeVars, pageVars, genVars, apiVars>>

MultiSubmitAppPages == MultiSubmitRandom("app_pages")
MultiSubmitAppMain == MultiSubmitRandom("app_main")

NextMultiCopies ==
    MultiSubmitPages \/ MultiSubmitAppPages \/ MultiSubmitAppMain \/ MultiNewSession
SpecMultiCopies == InitMultiSpec /\ [][NextMultiCopies]_vars

-----------------------------------------------------------------------------
(* Claims about the multi-source generator *)

\* the packets of a list that belong to one asset type / one source
OfAsset(packets, a) == SelectSeq(packets, LAMBDA p : p.asset_type = a)
OfSource(packets, a, pld) == SelectSeq(packets, LAMBDA p : p.asset_type = a /\ p.pld = pld)

MultiDone == multi_in.copy # "none"
PagesDone == multi_in.copy = "pages"
Selected == Range(multi_in.selected_asset_types)
HasPlds(a) == CleanedPlds(pld_inputs[a]) # <<>>
HasDps(a) == get_data_points_by_asset_type(a) # <<>>
Reported(kind, what, a) == \E i \in 1..Len(multi_report) : multi_report[i] = <<kind, what, a>>
ReportedKind(kind) == \E i \in 1..Len(multi_report) : multi_report[i][1] = kind

\* C1: whatever is selected, the delivered multi-source packet list is
\* sorted non-decreasing by its timestamp string, across all asset types and
\* sources (no adjacent pair with p[i+1].timestamp < p[i].timestamp).
C1_DeliveredSorted ==
    (MultiDone /\ multi_download # NoDownload) =>
        LET out == multi_download[1]
        IN \A i \in 1..(Len(out) - 1) : ~StrLess(out[i + 1].timestamp, out[i].timestamp)

\* the count the claim states: the window ends at 23:59:00 of end_date
ClaimTotalSeconds == (multi_in.end_date - multi_in.start_date) * SecondsPerDay + 86340
ClaimCount(a) ==
    LET interval == pld_frequencies[a] * 60
    IN IF ClaimTotalSeconds < interval THEN 1 ELSE ClaimTotalSeconds \div interval

\* C4: count-based sequencer: with total_seconds taken to 23:59:00 of
\* end_date, every source of a processed asset type gets exactly 1 packet at
\* start when total_seconds < interval_seconds and otherwise exactly
\* floor(total_seconds / interval_seconds) packets at start + i*interval,
\* i = 0..count-1; one day at 1440 minutes gives exactly 1 packet.
C4_CountBasedSequence ==
    PagesDone =>
        \A a \in Selected : (HasPlds(a) /\ HasDps(a)) =>
            LET cleaned == CleanedPlds(pld_inputs[a])
                interval == pld_frequencies[a] * 60
                n == ClaimCount(a)
            IN \A j \in 1..Len(cleaned) :
                  LET mine == OfSource(multi_packets, a, cleaned[j])
                      copies == Cardinality({i \in 1..Len(cleaned) : cleaned[i] = cleaned[j]})
                  IN /\ Len(mine) = n * copies
                     /\ {mine[k].timestamp : k \in 1..Len(mine)} =
                           {format_timestamp(AddSeconds(CombineMin(multi_in.start_date),
                                                        i * interval)) : i \in 0..(n - 1)}
                     /\ (multi_in.start_date = multi_in.end_date /\ pld_frequencies[a] = 1440)
                           => Len(mine) = copies

\* the division branch with more than one packet: two days at 480 minutes
C4_Witness ==
    /\ PagesDone
    /\ multi_in.end_date = multi_in.start_date + 1
    /\ \E a \in Selected :
          /\ HasPlds(a) /\ HasDps(a)
          /\ pld_frequencies[a] = 480
          /\ Len(OfSource(multi_packets, a, CleanedPlds(pld_inputs[a])[1])) = 5

ValidOthers(a) == {b \in Selected \ {a} : HasPlds(b) /\ HasDps(b)}

C6_NoDataPointsIsWarning ==
    PagesDone =>
        \A a \in Selected : ~HasDps(a) =>
            /\ OfAsset(multi_packets, a) = <<>>
            /\ Reported("warning", "no data points", a)
            /\ \A i \in 1..Len(multi_report) :
                  ~(multi_report[i][1] = "error" /\ multi_report[i][3] = a)

\* C6 as amended: a selected asset type with at least one non-empty source
\* id and zero matching DataPoints contributes zero packets and is reported
\* as a warning, not as an error; the error state is set only by asset
\* types without a non-empty source id (which are reported as that error
\* before their DataPoints are looked up), and when it is not set every
\* packet of the other asset types is delivered.
C6_NoDataPointsIsWarningAfterPlds ==
    PagesDone =>
        /\ has_errors <=> (\E b \in Selected : ~HasPlds(b))
        /\ \A a \in Selected : ~HasDps(a) =>
              /\ OfAsset(multi_packets, a) = <<>>
              /\ HasPlds(a) =>
                    /\ Reported("warning", "no data points", a)
                    /\ \A i \in 1..Len(multi_report) :
                          ~(multi_report[i][1] = "error" /\ multi_report[i][3] = a)
              /\ ~HasPlds(a) =>
                    /\ Reported("error", "no PLD", a)
                    /\ ~Reported("warning", "no data points", a)
              /\ (~has_errors /\ ValidOthers(a) # {}) =>
                    /\ multi_download # NoDownload
                    /\ \A b \in ValidOthers(a) :
                          Len(OfAsset(multi_download[1], b)) =
                              Len(CleanedPlds(pld_inputs[b])) * ClaimCount(b)

C6_Witness ==
    /\ PagesDone
    /\ ~has_errors
    /\ \E a \in Selected :
          /\ ~HasDps(a) /\ HasPlds(a)
          /\ Reported("warning", "no data points", a)
          /\ ValidOthers(a) # {}
          /\ multi_download # NoDownload

\* C7: a multi-source request whose end_date is earlier than its start_date
\* is surfaced as a validation error and no packet is generated for it.
C7_EndBeforeStartRejected ==
    (PagesDone /\ multi_in.end_date < multi_in.start_date) =>
        /\ ReportedKind("error")
        /\ multi_packets = <<>>
        /\ multi_download = NoDownload

-----------------------------------------------------------------------------
(* Schema Store writes and the Data Points page: database.py,               *)
(* app_pages/data_points.py, bulk_upload.py                                 *)

\* get_data_point_by_name / get_data_point_by_id: None or Some(row)
get_data_point_by_name(name) ==
    LET hits == SelectSeq(data_points, LAMBDA dp : dp.name = name)
    IN IF hits = <<>> THEN None ELSE Some(hits[1])

get_data_point_by_id(dp_id) ==
    LET hits == SelectSeq(data_points, LAMBDA dp : dp.id = dp_id)
    IN IF hits = <<>> THEN None ELSE Some(hits[1])

\* `if current_dp_id is not None and row['id'] == current_dp_id: continue`
SkipRow(row, current_dp_id) == current_dp_id # None /\ row.id = current_dp_id[1]

\* the rows other than the one being edited that hold the identifier
HoldersOf(rows, identifier, current_dp_id) ==
    {i \in 1..Len(rows) : /\ ~SkipRow(rows[i], current_dp_id)
                          /\ identifier \in Range(rows[i].identifiers)}

\* the check finds nothing
check_identifier_uniqueness_Off(rows, identifiers, current_dp_id) == None

\* check_identifier_uniqueness: the first of the given identifiers that some
\* other row holds, else None
check_identifier_uniqueness(rows, identifiers, current_dp_id) ==
    LET dups == {k \in 1..Len(identifiers) :
                    HoldersOf(rows, identifiers[k], current_dp_id) # {}}
    IN IF dups = {} THEN None
       ELSE Some(identifiers[CHOOSE k \in dups : \A m \in dups : k <= m])

\* a Python value used as a condition: None and "" are false
Truthy(opt) == opt # None /\ opt[1] # <<>>

\* json.dumps of one str: quotes around it, `"` and `\` escaped
RECURSIVE JsonEscape(_)
JsonEscape(t) ==
    IF t = <<>> THEN <<>>
    ELSE (IF Head(t) \in {"\"", "\\"} THEN <<"\\", Head(t)>> ELSE <<Head(t)>>)
         \o JsonEscape(Tail(t))

RECURSIVE JsonItems(_)
JsonItems(items) ==
    IF items = <<>> THEN <<>>
    ELSE <<"\"">> \o JsonEscape(Head(items)) \o <<"\"">>
         \o (IF Len(items) > 1 THEN <<",", " ">> ELSE <<>>) \o JsonItems(Tail(items))

\* json.dumps(list of str): the text stored in the column
json_dumps(items) == <<"[">> \o JsonItems(items) \o <<"]">>

\* the decoder taking a backslash for a character of the string
RECURSIVE JsonScan_NoEscape(_, _, _, _, _)
JsonScan_NoEscape(s, i, in_str, cur, acc) ==
    IF i > Len(s) THEN acc
    ELSE IF ~in_str
    THEN JsonScan_NoEscape(s, i + 1, s[i] = "\"", <<>>, acc)
    ELSE IF s[i] = "\"" THEN JsonScan_NoEscape(s, i + 1, FALSE, <<>>, Append(acc, cur))
    ELSE JsonScan_NoEscape(s, i + 1, TRUE, Append(cur, s[i]), acc)

\* json.loads of such a text, read from position i: outside a string
\* everything up to the next quote is skipped, inside one a backslash
\* makes the next character part of the string
RECURSIVE JsonScan(_, _, _, _, _)
JsonScan(s, i, in_str, cur, acc) ==
    IF i > Len(s) THEN acc
    ELSE IF ~in_str
    THEN JsonScan(s, i + 1, s[i] = "\"", <<>>, acc)
    ELSE IF s[i] = "\\" THEN JsonScan(s, i + 2, TRUE, Append(cur, s[i + 1]), acc)
    ELSE IF s[i] = "\"" THEN JsonScan(s, i + 1, FALSE, <<>>, Append(acc, cur))
    ELSE JsonScan(s, i + 1, TRUE, Append(cur, s[i]), acc)

\* json.loads(text): the list a reader of the column gets
json_loads(text) == JsonScan(text, 1, FALSE, <<>>, <<>>)

\* a row as its readers see it: identifiers and asset_types are stored as
\* JSON text and decoded on every read
NewRow(id, name, identifiers, types, data_type, range_min, range_max, string_options) ==
    [id |-> id, name |-> name, identifiers |-> json_loads(json_dumps(identifiers)),
     asset_types |-> json_loads(json_dumps(types)),
     data_type |-> data_type, range_min |-> range_min, range_max |-> range_max,
     string_options |-> string_options]

\* the id taken to follow the ids of the rows that are left
NextRowId_Reuse(rows, seq) == Len(rows) + 1

\* INSERT with AUTOINCREMENT: the id follows the largest id ever used
NextRowId(rows, seq) == seq + 1

\* add_data_point: [ok, rows, seq]; the UNIQUE constraint on name makes the
\* INSERT fail (sqlite3.IntegrityError) and leaves the table as it was
add_data_point(rows, seq, name, identifiers, types, data_type, range_min, range_max, string_options) ==
    IF \E i \in 1..Len(rows) : rows[i].name = name
    THEN [ok |-> FALSE, rows |-> rows, seq |-> seq]
    ELSE [ok |-> TRUE,
          rows |-> Append(rows, NewRow(NextRowId(rows, seq), name, identifiers, types,
                                       data_type, range_min, range_max, string_options)),
          seq |-> NextRowId(rows, seq)]

\* update_data_point: UPDATE ... WHERE id = ?
update_data_point(rows, dp_id, name, identifiers, types, data_type, range_min, range_max, string_options) ==
    [i \in 1..Len(rows) |->
        IF rows[i].id = dp_id
        THEN NewRow(dp_id, name, identifiers, types, data_type, range_min, range_max,
                    string_options)
        ELSE rows[i]]

\* update_data_point_by_name: UPDATE ... WHERE name = ?
update_data_point_by_name(rows, name, identifiers, types, data_type, range_min, range_max, string_options) ==
    [i \in 1..Len(rows) |->
        IF rows[i].name = name
        THEN NewRow(rows[i].id, name, identifiers, types, data_type, range_min, range_max,
                    string_options)
        ELSE rows[i]]

\* [x.strip() for x in text.split(',') if x.strip()]
ParseList(text) ==
    LET parts == Split(text, ",")
        stripped == [i \in 1..Len(parts) |-> Strip(parts[i])]
    IN SelectSeq(stripped, LAMBDA x : x # <<>>)

\* [x.strip() for x in str(text).split(',')]: empty pieces are kept
ParseListKeepEmpty(text) ==
    LET parts == Split(text, ",")
    IN [i \in 1..Len(parts) |-> Strip(parts[i])]

\* ", ".join(items)
RECURSIVE JoinComma(_)
JoinComma(items) ==
    IF items = <<>> THEN <<>>
    ELSE IF Len(items) = 1 THEN items[1]
    ELSE items[1] \o <<",", " ">> \o JoinComma(Tail(items))

\* utils.format_json_list_for_display of a column holding a JSON list
format_json_list_for_display(items) == JoinComma(items)

\* what a run of the page showed: the widget that triggered it, the kind of
\* message, the message and the value the message names
Report(op, kind, what, detail) ==
    [op |-> op, kind |-> kind, what |-> what, detail |-> detail]

N_A == <<"A">>
N_B == <<"B"," ","b">>
N_C == <<"C">>
I_x == <<"x">>
I_xy == <<"x",","," ","y">>
I_y == <<"y">>
O_onoff == <<"O","N",","," ","O","F","F">>

\* what the add form can be submitted with
FormNames == {<<>>, N_A, N_B}
FormIdTexts == {<<>>, I_x, I_xy}
FormAssetLists == {<<>>, <<T_DG>>}
FormTails == { [data_type |-> "float", range_min |-> Some(0), range_max |-> Some(100),
                string_options |-> None],
               [data_type |-> "string", range_min |-> None, range_max |-> None,
                string_options |-> Some(O_onoff)] }

\* the "Add New Data Point" button
ClickAdd ==
    /\ editing_dp_id = None
    /\ ~show_add_form
    /\ show_add_form' = TRUE
    /\ dp_report' = NoReport
    /\ UNCHANGED <<storeVars, editing_dp_id, genVars, multiVars, apiVars>>

\* "Cancel" of the add form
AddFormCancel ==
    /\ editing_dp_id = None
    /\ show_add_form
    /\ show_add_form' = FALSE
    /\ dp_report' = NoReport
    /\ UNCHANGED <<storeVars, editing_dp_id, genVars, multiVars, apiVars>>

\* "Submit Data Point" of the add form, with the values entered
AddFormSubmitWith(dp_name, dp_identifiers_str, types, tail) ==
    /\ editing_dp_id = None
    /\ show_add_form
    /\    LET identifiers == ParseList(dp_identifiers_str)
              duplicate_identifier ==
                  check_identifier_uniqueness(data_points, identifiers, None)
              existing_dp == get_data_point_by_name(dp_name)
              added == add_data_point(data_points, dp_seq, dp_name, identifiers, types,
                                      tail.data_type, tail.range_min, tail.range_max,
                                      tail.string_options)
          IN IF dp_name = <<>> \/ types = <<>>
             THEN /\ dp_report' = Report("add", "warning", "required fields", <<>>)
                  /\ UNCHANGED <<storeVars, show_add_form>>
             ELSE IF existing_dp # None
             THEN /\ dp_report' = Report("add", "error", "name exists", dp_name)
                  /\ UNCHANGED <<storeVars, show_add_form>>
             ELSE IF Truthy(duplicate_identifier)
             THEN /\ dp_report' = Report("add", "error", "identifier in use", duplicate_identifier[1])
                  /\ UNCHANGED <<storeVars, show_add_form>>
             ELSE /\ dp_seq < MaxId
                  /\ data_points' = added.rows
                  /\ dp_seq' = added.seq
                  /\ show_add_form' = FALSE
                  /\ dp_report' = Report("add", "success", "added", dp_name)
                  /\ UNCHANGED asset_types
    /\ UNCHANGED <<editing_dp_id, genVars, multiVars, apiVars>>

AddFormSubmit ==
    \E dp_name \in FormNames, dp_identifiers_str \in FormIdTexts,
       types \in FormAssetLists, tail \in FormTails :
       AddFormSubmitWith(dp_name, dp_identifiers_str, types, tail)

\* the edit button of a listed row
ClickEdit ==
    /\ \E i \in 1..Len(data_points) :
          /\ editing_dp_id' = Some(data_points[i].id)
          /\ dp_report' = NoReport
    /\ UNCHANGED <<storeVars, show_add_form, genVars, multiVars, apiVars>>

\* "Cancel" of the edit form
EditFormCancel ==
    /\ editing_dp_id # None
    /\ get_data_point_by_id(editing_dp_id[1]) # None
    /\ editing_dp_id' = None
    /\ dp_report' = NoReport
    /\ UNCHANGED <<storeVars, show_add_form, genVars, multiVars, apiVars>>

\* st.number_input(value=float(range_min or 0.0)) left as it is shown
NumberDefault(value, default) ==
    IF value = None \/ value = Some(0) THEN Some(default) ELSE value

\* the values the edit form submits when only the identifiers text is edited
EditedTail(dp, data_type) ==
    IF data_type \in {"float", "int"}
    THEN [range_min |-> NumberDefault(dp.range_min, 0),
          range_max |-> NumberDefault(dp.range_max, 100),
          string_options |-> dp.string_options]
    ELSE IF data_type = "string"
    THEN [range_min |-> dp.range_min, range_max |-> dp.range_max,
          string_options |-> IF Truthy(dp.string_options) THEN dp.string_options
                             ELSE Some(<<>>)]
    ELSE [range_min |-> dp.range_min, range_max |-> dp.range_max,
          string_options |-> dp.string_options]

\* "Update Data Point" of the edit form
EditFormSubmitWith(dp_identifiers_str) ==
    /\ editing_dp_id # None
    /\ get_data_point_by_id(editing_dp_id[1]) # None
    /\ LET dp_to_edit == get_data_point_by_id(editing_dp_id[1])[1]
       IN
          LET identifiers == ParseList(dp_identifiers_str)
              duplicate == check_identifier_uniqueness(data_points, identifiers,
                                                       editing_dp_id)
              data_type == dp_to_edit.data_type
              tail == EditedTail(dp_to_edit, data_type)
              types == SelectSeq(dp_to_edit.asset_types,
                                 LAMBDA t : t \in get_all_asset_types)
          IN IF Truthy(duplicate)
             THEN /\ dp_report' = Report("edit", "error", "identifier in use", duplicate[1])
                  /\ UNCHANGED <<storeVars, editing_dp_id>>
             ELSE /\ data_points' =
                        update_data_point(data_points, editing_dp_id[1], dp_to_edit.name,
                                          identifiers, types, data_type, tail.range_min,
                                          tail.range_max, tail.string_options)
                  /\ editing_dp_id' = None
                  /\ dp_report' = Report("edit", "success", "updated", dp_to_edit.name)
                  /\ UNCHANGED <<asset_types, dp_seq>>
    /\ UNCHANGED <<show_add_form, genVars, multiVars, apiVars>>

\* the text the identifiers input of the edit form shows when it opens
ShownIdentifiers ==
    format_json_list_for_display(get_data_point_by_id(editing_dp_id[1])[1].identifiers)

\* the submit of the edit form, the identifiers input left as shown or
\* overwritten
EditFormSubmit ==
    /\ editing_dp_id # None
    /\ get_data_point_by_id(editing_dp_id[1]) # None
    /\ \E dp_identifiers_str \in FormIdTexts \cup {ShownIdentifiers} :
          EditFormSubmitWith(dp_identifiers_str)

\* "Delete All Data Points"
DeleteAll ==
    /\ data_points' = <<>>
    /\ dp_report' = Report("delete_all", "success", "deleted", <<>>)
    /\ UNCHANGED <<asset_types, dp_seq, show_add_form, editing_dp_id, genVars, multiVars, apiVars>>

\* add_asset_type: FALSE when LOWER(stored name) = name.lower() for some
\* row; else the INSERT, which the UNIQUE constraint on name makes fail
\* (sqlite3.IntegrityError) when the very name is stored; else TRUE and the
\* new table
add_asset_type(types, name) ==
    IF \E i \in 1..Len(types) : SqlLower(types[i]) = Lower(name)
    THEN [ok |-> FALSE, raised |-> FALSE, types |-> types]
    ELSE IF \E i \in 1..Len(types) : types[i] = name
    THEN [ok |-> FALSE, raised |-> TRUE, types |-> types]
    ELSE [ok |-> TRUE, raised |-> FALSE, types |-> Append(types, name)]

T_dg == <<"d","g">>
T_P  == <<"P">>
AssetNameInputs == {T_dg, T_P}

\* "Add Asset Type" with a non-empty name
AddAssetType ==
    /\ \E new_asset_name \in AssetNameInputs :
          LET r == add_asset_type(asset_types, new_asset_name)
          IN /\ asset_types' = r.types
             /\ dp_report' = Report("add_asset_type", IF r.ok THEN "success" ELSE "error",
                                    IF r.ok THEN "added"
                                    ELSE IF r.raised THEN "exception" ELSE "already exists",
                                    <<>>)
    /\ UNCHANGED <<data_points, dp_seq, show_add_form, editing_dp_id, genVars, multiVars, apiVars>>

\* a row of the uploaded sheet; an empty cell (NaN) is None
SheetRow(name, identifiers, types, data_type, range_min, range_max, string_options) ==
    [name |-> name, identifiers |-> identifiers, asset_types |-> types,
     data_type |-> data_type, range_min |-> range_min, range_max |-> range_max,
     string_options |-> string_options]

\* str(cell): the text of the cell, "nan" for an empty one
CellStr(cell) == IF cell = None THEN <<"n","a","n">> ELSE cell[1]

valid_data_types == {"float", "int", "boolean", "string"}

\* validate_bulk_upload, for a sheet that has the required columns: the
\* number of errors it reports
RowErrors(row) ==
    Cardinality({c \in {"name", "identifiers", "asset_types", "data_type"} : row[c] = None})
    + (IF row.data_type = None \/ row.data_type[1] \notin valid_data_types THEN 1 ELSE 0)
    + Cardinality({i \in 1..Len(ParseListKeepEmpty(CellStr(row.asset_types))) :
          ParseListKeepEmpty(CellStr(row.asset_types))[i] \notin get_all_asset_types})

RECURSIVE validate_bulk_upload(_)
validate_bulk_upload(df) ==
    IF df = <<>> THEN 0 ELSE RowErrors(Head(df)) + validate_bulk_upload(Tail(df))

\* the body of `for i, row in validated_df.iterrows()` on acc = [ok, rows,
\* seq]; a failed INSERT raises and ends the loop
ProcessRow(row, existing_names, acc) ==
    LET name == row.name[1]
        identifiers == ParseListKeepEmpty(CellStr(row.identifiers))
        types == ParseListKeepEmpty(CellStr(row.asset_types))
    IN IF name \in existing_names
       THEN [acc EXCEPT !.rows =
                update_data_point_by_name(acc.rows, name, identifiers, types,
                    row.data_type[1], row.range_min, row.range_max, row.string_options)]
       ELSE add_data_point(acc.rows, acc.seq, name, identifiers, types,
                row.data_type[1], row.range_min, row.range_max, row.string_options)

RECURSIVE ProcessRows(_, _, _)
ProcessRows(df, existing_names, acc) ==
    IF df = <<>> \/ ~acc.ok THEN acc
    ELSE ProcessRows(Tail(df), existing_names, ProcessRow(Head(df), existing_names, acc))

B_DG == Some(T_DG)
B_float == Some("float")

\* the sheets the model uploads
BulkFiles ==
    { << SheetRow(Some(N_C), Some(I_x), B_DG, B_float, Some(0), Some(100), None) >>,
      << SheetRow(Some(N_A), Some(I_y), B_DG, B_float, None, None, None) >>,
      << SheetRow(Some(N_C), Some(I_y), B_DG, Some("int"), None, None, None),
         SheetRow(Some(N_C), Some(I_x), B_DG, Some("int"), None, None, None) >>,
      << SheetRow(Some(N_A), Some(I_x), Some(<<"N","o">>), B_float, None, None, None) >> }

\* an uploaded file: validation, then the rows one by one
BulkUploadWith(df) ==
    /\    LET errors == validate_bulk_upload(df)
              existing_names == {data_points[i].name : i \in 1..Len(data_points)}
              done == ProcessRows(df, existing_names,
                                  [ok |-> TRUE, rows |-> data_points, seq |-> dp_seq])
          IN IF errors > 0
             THEN /\ dp_report' = Report("bulk", "error", "validation", <<>>)
                  /\ UNCHANGED <<data_points, dp_seq>>
             ELSE /\ done.seq <= MaxId
                  /\ data_points' = done.rows
                  /\ dp_seq' = done.seq
                  /\ dp_report' =
                        IF done.ok
                        THEN Report("bulk", "success", "complete", <<>>)
                        ELSE Report("bulk", "error", "exception", <<>>)
    /\ UNCHANGED <<asset_types, show_add_form, editing_dp_id, genVars, multiVars, apiVars>>

BulkUpload == \E df \in BulkFiles : BulkUploadWith(df)

InitStoreSpec == InitStoreEmpty /\ InitPage /\ InitGen /\ InitMultiIdle /\ InitApi
NextStore ==
    \/ ClickAdd \/ AddFormCancel \/ AddFormSubmit
    \/ ClickEdit \/ EditFormCancel \/ EditFormSubmit
    \/ DeleteAll \/ BulkUpload \/ AddAssetType
SpecStore == InitStoreSpec /\ [][NextStore]_vars

-----------------------------------------------------------------------------
(* Claims about the Schema Store and the Data Points page (SpecStore) *)

\* the positions of the entered identifiers that an existing row holds
CollidingAt(identifiers) ==
    {k \in 1..Len(identifiers) :
        \E i \in 1..Len(data_points) : identifiers[k] \in Range(data_points[i].identifiers)}

FirstColliding(identifiers) ==
    identifiers[CHOOSE k \in CollidingAt(identifiers) :
                    \A m \in CollidingAt(identifiers) : k <= m]

StoreUnchanged == data_points' = data_points /\ dp_seq' = dp_seq /\ asset_types' = asset_types

\* C9 as stated: an add-form submission of which some identifier belongs to
\* an existing DataPoint is rejected, the colliding identifier is what is
\* reported, and the store is left unchanged.
C9_CollisionReported ==
    [][\A n \in FormNames, t \in FormIdTexts, ty \in FormAssetLists, tl \in FormTails :
          (AddFormSubmitWith(n, t, ty, tl) /\ CollidingAt(ParseList(t)) # {}) =>
              /\ StoreUnchanged
              /\ dp_report' = Report("add", "error", "identifier in use",
                                     FirstColliding(ParseList(t)))]_vars

\* C9 as amended: such a submission is always rejected and leaves the store
\* unchanged; the first colliding identifier (in the order entered) is what
\* is reported when the name and the asset types are filled in and the name
\* is not taken, otherwise the required-fields warning or the duplicate-name
\* error is reported in its place.
C9_CollisionRejected ==
    [][\A n \in FormNames, t \in FormIdTexts, ty \in FormAssetLists, tl \in FormTails :
          (AddFormSubmitWith(n, t, ty, tl) /\ CollidingAt(ParseList(t)) # {}) =>
              /\ StoreUnchanged
              /\ show_add_form'
              /\ dp_report'.kind # "success"
              /\ dp_report' =
                    IF n = <<>> \/ ty = <<>>
                    THEN Report("add", "warning", "required fields", <<>>)
                    ELSE IF \E i \in 1..Len(data_points) : data_points[i].name = n
                    THEN Report("add", "error", "name exists", n)
                    ELSE Report("add", "error", "identifier in use",
                                FirstColliding(ParseList(t)))]_vars

\* a submission was turned down for its second identifier's sake or its first
C9_Witness ==
    /\ dp_report = Report("add", "error", "identifier in use", I_x)
    /\ show_add_form
    /\ \E i \in 1..Len(data_points) : I_x \in Range(data_points[i].identifiers)

\* C10: after any sequence of store-mutating operations no identifier
\* appears in the identifier lists of two different DataPoints.
C10_IdentifiersGloballyUnique ==
    \A i, j \in 1..Len(data_points) :
        i # j => Range(data_points[i].identifiers) \cap Range(data_points[j].identifiers) = {}

\* the rows of a sheet applied as upserts by name: a row whose name a record
\* has by then updates that record, any other row inserts one
RECURSIVE UpsertRows(_, _)
UpsertRows(df, acc) ==
    IF df = <<>> THEN acc
    ELSE UpsertRows(Tail(df),
             ProcessRow(Head(df), {acc.rows[i].name : i \in 1..Len(acc.rows)}, acc))

NamesUnique ==
    \A i, j \in 1..Len(data_points) : i # j => data_points[i].name # data_points[j].name

\* C13: names are unique and are the upsert key: no two DataPoints share a
\* name; a valid bulk upload updates in place the record of every row whose
\* name a DataPoint has and inserts exactly one record for a row with a new
\* name; the add form turns down a name that exists and leaves the store
\* as it was.
C13_NameIsUpsertKey ==
    /\ []NamesUnique
    /\ [][/\ \A df \in BulkFiles :
               (BulkUploadWith(df) /\ validate_bulk_upload(df) = 0) =>
                   data_points' = UpsertRows(df, [ok |-> TRUE, rows |-> data_points,
                                                  seq |-> dp_seq]).rows
          /\ \A n \in FormNames, t \in FormIdTexts, ty \in FormAssetLists, tl \in FormTails :
               (AddFormSubmitWith(n, t, ty, tl) /\ get_data_point_by_name(n) # None) =>
                   StoreUnchanged /\ dp_report'.kind # "success"]_vars

-----------------------------------------------------------------------------
(* database.py called function by function (SpecDb)                        *)

I_q == <<"a", "\"", "\\", ",", "b">>

\* what the functions of database.py are called with
DbNames == {N_A, N_B}
DbPayloads ==
    { [identifiers |-> <<I_x>>, asset_types |-> <<T_DG>>,
       tail |-> [data_type |-> "float", range_min |-> Some(0), range_max |-> Some(100),
                 string_options |-> None]],
      [identifiers |-> <<I_q, I_y>>, asset_types |-> <<T_HVAC, T_DG>>,
       tail |-> [data_type |-> "string", range_min |-> None, range_max |-> None,
                 string_options |-> Some(O_onoff)]],
      [identifiers |-> <<>>, asset_types |-> <<>>,
       tail |-> [data_type |-> "int", range_min |-> None, range_max |-> Some(5),
                 string_options |-> None]] }
DbArgs ==
    {[name |-> n, identifiers |-> p.identifiers, asset_types |-> p.asset_types,
      tail |-> p.tail] : n \in DbNames, p \in DbPayloads}

\* add_data_point(...)
CallAddDataPoint ==
    \E a \in DbArgs :
       LET r == add_data_point(data_points, dp_seq, a.name, a.identifiers, a.asset_types,
                               a.tail.data_type, a.tail.range_min, a.tail.range_max,
                               a.tail.string_options)
       IN /\ r.ok => dp_seq < MaxId
          /\ data_points' = r.rows
          /\ dp_seq' = r.seq
          /\ call' = [fn |-> "add_data_point", args |-> a,
                      result |-> IF r.ok THEN "returned" ELSE "IntegrityError",
                      before |-> Len(data_points)]
          /\ UNCHANGED <<asset_types, pageVars, genVars, multiVars, sessions>>

\* update_data_point(dp_id, ...); the UNIQUE constraint on name makes the
\* UPDATE fail when another row has the new name
CallUpdateDataPoint ==
    \E dp_id \in 1..MaxId, a \in DbArgs :
       LET clash == /\ \E i \in 1..Len(data_points) : data_points[i].id = dp_id
                    /\ \E j \in 1..Len(data_points) :
                          data_points[j].name = a.name /\ data_points[j].id # dp_id
       IN /\ data_points' =
                IF clash THEN data_points
                ELSE update_data_point(data_points, dp_id, a.name, a.identifiers,
                         a.asset_types, a.tail.data_type, a.tail.range_min,
                         a.tail.range_max, a.tail.string_options)
          /\ call' = [fn |-> "update_data_point", args |-> a,
                      result |-> IF clash THEN "IntegrityError" ELSE "returned",
                      before |-> Len(data_points)]
          /\ UNCHANGED <<asset_types, dp_seq, pageVars, genVars, multiVars, sessions>>

\* update_data_point_by_name(name, ...)
CallUpdateDataPointByName ==
    \E a \in DbArgs :
       /\ data_points' =
             update_data_point_by_name(data_points, a.name, a.identifiers, a.asset_types,
                 a.tail.data_type, a.tail.range_min, a.tail.range_max,
                 a.tail.string_options)
       /\ call' = [fn |-> "update_data_point_by_name", args |-> a,
                   result |-> "returned", before |-> Len(data_points)]
       /\ UNCHANGED <<asset_types, dp_seq, pageVars, genVars, multiVars, sessions>>

\* delete_all_data_points(): DELETE FROM data_points leaves sqlite_sequence
CallDeleteAll ==
    /\ data_points' = <<>>
    /\ call' = [fn |-> "delete_all_data_points", args |-> <<>>, result |-> "returned",
                before |-> Len(data_points)]
    /\ UNCHANGED <<asset_types, dp_seq, pageVars, genVars, multiVars, sessions>>

T_Eacute == <<"É">>
T_eacute == <<"é">>
DbAssetNames == {T_dg, T_Eacute, T_eacute}

\* add_asset_type(name)
CallAddAssetType ==
    \E name \in DbAssetNames :
       LET r == add_asset_type(asset_types, name)
       IN /\ asset_types' = r.types
          /\ call' = [fn |-> "add_asset_type", args |-> name,
                      result |-> IF r.raised THEN "IntegrityError"
                                 ELSE IF r.ok THEN "True" ELSE "False",
                      before |-> asset_types]
          /\ UNCHANGED <<data_points, dp_seq, pageVars, genVars, multiVars, sessions>>

InitDbSpec == InitStoreEmpty /\ InitPage /\ InitGen /\ InitMultiIdle /\ InitApi
NextDb ==
    \/ CallAddDataPoint \/ CallUpdateDataPoint \/ CallUpdateDataPointByName
    \/ CallDeleteAll \/ CallAddAssetType
SpecDb == InitDbSpec /\ [][NextDb]_vars

\* the fields of a fetched row against the arguments of a call
SameFields(row, a) ==
    /\ row.name = a.name
    /\ row.identifiers = a.identifiers
    /\ row.asset_types = a.asset_types
    /\ row.data_type = a.tail.data_type
    /\ row.range_min = a.tail.range_min
    /\ row.range_max = a.tail.range_max
    /\ row.string_options = a.tail.string_options

\* C11: round trip: right after add_data_point(...) has succeeded,
\* get_data_point_by_name(name) and get_data_point_by_id(the new id) return
\* the same record, and its fields equal the values passed to the call
\* (identifiers and asset_types as decoded from their JSON text).
C11_AddThenFetch ==
    (call.fn = "add_data_point" /\ call.result = "returned") =>
        LET by_name == get_data_point_by_name(call.args.name)
            by_id == get_data_point_by_id(dp_seq)
        IN /\ by_name # None
           /\ by_id = by_name
           /\ SameFields(by_name[1], call.args)
           /\ Len(data_points) = call.before + 1

\* an identifier with a quote, a backslash and a comma came back as passed,
\* into a table that held another row
C11_Witness ==
    /\ call.fn = "add_data_point" /\ call.result = "returned"
    /\ call.args.identifiers = <<I_q, I_y>>
    /\ call.before > 0
    /\ get_data_point_by_id(dp_seq) # None
    /\ get_data_point_by_id(dp_seq)[1].identifiers = <<I_q, I_y>>

\* two names are equal ignoring case
SameIgnoringCase(a, b) == Lower(a) = Lower(b)

\* C12: asset type names are unique ignoring case: no two stored asset types
\* have names equal ignoring case; add_asset_type with a name that matches a
\* stored one ignoring case returns False and leaves the table unchanged,
\* otherwise it returns True and adds exactly that name.
C12_AssetTypesUniqueIgnoringCase ==
    /\ \A i, j \in 1..Len(asset_types) :
          i # j => ~SameIgnoringCase(asset_types[i], asset_types[j])
    /\ call.fn = "add_asset_type" =>
          IF \E i \in 1..Len(call.before) : SameIgnoringCase(call.before[i], call.args)
          THEN call.result = "False" /\ asset_types = call.before
          ELSE call.result = "True" /\ asset_types = Append(call.before, call.args)

\* the ids of the rows of a table, in table order
IdsOf(rows) == [i \in 1..Len(rows) |-> rows[i].id]

\* C14: ids are assigned once and are stable: update_data_point and
\* update_data_point_by_name change no id; a record that a step creates gets
\* an id above every id assigned before (dp_seq, which no step lowers and no
\* stored id exceeds), also after delete_all_data_points; so no id is given
\* to two DataPoints.
C14_IdAssignedOnce ==
    [][/\ (CallUpdateDataPoint \/ CallUpdateDataPointByName) =>
              IdsOf(data_points') = IdsOf(data_points)
       /\ \A i \in 1..Len(data_points) : data_points[i].id <= dp_seq
       /\ dp_seq' >= dp_seq
       /\ \A j \in 1..Len(data_points') :
              \/ \E i \in 1..Len(data_points) :
                    /\ data_points[i].id = data_points'[j].id
                    /\ data_points[i].name = data_points'[j].name \/ CallUpdateDataPoint
              \/ /\ CallAddDataPoint
                 /\ data_points'[j].id > dp_seq
                 /\ data_points'[j].id <= dp_seq'
       /\ \A i, j \in 1..Len(data_points') :
              i # j => data_points'[i].id # data_points'[j].id]_vars

\* a record created after delete_all_data_points, in a store that had
\* assigned id 1 before: it has id 2
C14_Witness ==
    /\ call.fn = "add_data_point" /\ call.result = "returned"
    /\ call.before = 0
    /\ IdsOf(data_points) = <<2>>

-----------------------------------------------------------------------------
(* utils.generate_mock_value called on its own (SpecSynth)                 *)
(* Bounds and float results are counted in hundredths: 250 is 2.5.         *)

\* int(x) of a float: the fraction is cut off, towards zero
IntOf(x) == IF x >= 0 THEN x \div 100 ELSE -((-x) \div 100)

\* `dp['range_min'] if dp['range_min'] is not None else 0.0`
BoundOr(bound, default) == IF bound = None THEN default ELSE bound[1]

SampleString == <<"S","a","m","p","l","e"," ","S","t","r","i","n","g">>

\* the options as they are split, not trimmed
StringChoices_Untrimmed(string_options) == Range(Split(string_options, ","))

\* [opt.strip() for opt in dp['string_options'].split(',')]
StringChoices(string_options) ==
    {Strip(opt) : opt \in Range(Split(string_options, ","))}

\* generate_mock_value(dp): the set of what a call can end with, a value
\* [type, v] or the exception random.randint raises for an empty range
generate_mock_value(dp) ==
    IF dp.data_type = "float"
    THEN LET min_val == BoundOr(dp.range_min, 0)
             max_val == BoundOr(dp.range_max, 10000)
         IN {[type |-> "float", v |-> x] :
                x \in {y \in -1000..10000 : \/ min_val <= y /\ y <= max_val
                                            \/ max_val <= y /\ y <= min_val}}
    ELSE IF dp.data_type = "int"
    THEN LET min_val == IntOf(BoundOr(dp.range_min, 0))
             max_val == IntOf(BoundOr(dp.range_max, 10000))
         IN IF min_val > max_val THEN {[type |-> "ValueError", v |-> 0]}
            ELSE {[type |-> "int", v |-> n] : n \in min_val..max_val}
    ELSE IF dp.data_type = "boolean"
    THEN {[type |-> "bool", v |-> b] : b \in BOOLEAN}
    ELSE IF dp.data_type = "string"
    THEN IF Truthy(dp.string_options)
         THEN {[type |-> "str", v |-> o] : o \in StringChoices(dp.string_options[1])}
         ELSE {[type |-> "str", v |-> SampleString]}
    ELSE {[type |-> "None", v |-> 0]}

\* the DataPoints the function is called on: every data type, the bounds
\* absent, negative, with a fraction, and in either order
SynthBounds == {None, Some(-350), Some(-150), Some(0), Some(3), Some(250)}
O_spaced == <<" ","a",","," ",",","b"," ">>
SynthOptions == {None, Some(<<>>), Some(O_onoff), Some(O_spaced), Some(<<" ">>)}
SynthDataPoints ==
    {[data_type |-> "float", range_min |-> None, range_max |-> Some(3),
      string_options |-> None]}
    \cup [data_type : {"float"}, range_min : SynthBounds \ {None},
          range_max : SynthBounds \ {None}, string_options : {None}]
    \cup [data_type : {"int"}, range_min : SynthBounds,
          range_max : SynthBounds, string_options : {None}]
    \cup [data_type : {"boolean"}, range_min : {None}, range_max : {None},
          string_options : {None}]
    \cup [data_type : {"string"}, range_min : {None}, range_max : {None},
          string_options : SynthOptions]

\* generate_mock_value(dp), called once
CallGenerateMockValue ==
    /\ call = NoCall
    /\ \E dp \in SynthDataPoints :
       \E r \in generate_mock_value(dp) :
          call' = [fn |-> "generate_mock_value", args |-> dp, result |-> r]
    /\ UNCHANGED <<storeVars, pageVars, genVars, multiVars, sessions>>

InitSynthSpec == InitStoreEmpty /\ InitPage /\ InitGen /\ InitMultiIdle /\ InitApi
NextSynth == CallGenerateMockValue
SpecSynth == InitSynthSpec /\ [][NextSynth]_vars

\* floor(x) of a bound
FloorOf(x) == x \div 100

SynthDone == call.fn = "generate_mock_value"

\* C15: for a DataPoint of type int the call returns an integer v with
\* floor(range_min or 0) <= v <= floor(range_max or 100), and every integer
\* of that interval is a possible result.
C15_IntWithinFloors ==
    (SynthDone /\ call.args.data_type = "int") =>
        LET lo == FloorOf(BoundOr(call.args.range_min, 0))
            hi == FloorOf(BoundOr(call.args.range_max, 10000))
        IN /\ call.result.type = "int"
           /\ lo <= call.result.v /\ call.result.v <= hi
           /\ \A n \in lo..hi : [type |-> "int", v |-> n] \in generate_mock_value(call.args)

\* C16: for a DataPoint of type string with string_options present and not
\* empty the call returns one of the trimmed pieces of string_options split
\* on commas, and every such piece is a possible result; with string_options
\* absent or empty it returns exactly "Sample String".
C16_StringFromOptions ==
    (SynthDone /\ call.args.data_type = "string") =>
        LET opts == call.args.string_options
            pieces == IF opts = None THEN <<>> ELSE Split(opts[1], ",")
            expected == IF opts = None \/ opts = Some(<<>>) THEN {SampleString}
                        ELSE {Strip(pieces[i]) : i \in 1..Len(pieces)}
        IN /\ call.result.type = "str"
           /\ call.result.v \in expected
           /\ \A o \in expected : [type |-> "str", v |-> o] \in generate_mock_value(call.args)

\* the piece " a" came back as "a", and the empty piece between two commas
\* can come back too
C16_Witness ==
    /\ SynthDone
    /\ call.args.string_options = Some(O_spaced)
    /\ call.result = [type |-> "str", v |-> <<"a">>]
    /\ [type |-> "str", v |-> <<>>] \in generate_mock_value(call.args)

\* the type a data type declares
DeclaredType(data_type) ==
    IF data_type = "boolean" THEN "bool"
    ELSE IF data_type = "string" THEN "str" ELSE data_type

\* C17: the Value Synthesizer has no error condition: for a DataPoint of any
\* data type of the enumeration, with bounds present or absent in any
\* combination and range_min above range_max, the call returns a value of
\* the declared type and does not fail.
C17_NeverFails ==
    SynthDone => call.result.type = DeclaredType(call.args.data_type)

-----------------------------------------------------------------------------
(* The per-DataPoint loop of the two packet shapes, called on stores with    *)
(* and without identifiers: app_pages/generator.py 61-63 and                *)
(* pages/multi_json_generator.py 106-109                                    *)

N_Et == <<"É"," ","t">>

\* the rows the stores of this specification are made of
KeyRows ==
    { [name |-> N_A, identifiers |-> <<I_q, I_y>>, asset_types |-> <<T_DG, T_HVAC>>],
      [name |-> N_B, identifiers |-> <<>>, asset_types |-> <<T_DG>>],
      [name |-> N_C, identifiers |-> <<I_x>>, asset_types |-> <<T_HVAC>>],
      [name |-> N_Et, identifiers |-> <<>>, asset_types |-> <<T_DG, T_HVAC>>] }

MaxKeyRows == 2

\* the store after add_data_point for each row of args, in order
RECURSIVE StoreOf(_, _)
StoreOf(args, rows) ==
    IF args = <<>> THEN rows
    ELSE StoreOf(Tail(args),
                 add_data_point(rows, Len(rows), Head(args).name, Head(args).identifiers,
                                Head(args).asset_types, "boolean", None, None, None).rows)

KeyStores ==
    UNION { { StoreOf(args, <<>>) :
                args \in {q \in [1..n -> KeyRows] :
                             \A i, j \in 1..n : i # j => q[i] # q[j]} } :
            n \in 0..MaxKeyRows }

InitKeyStore ==
    /\ asset_types = default_types
    /\ data_points \in KeyStores
    /\ dp_seq = Len(data_points)

\* the calls of generate_mock_value that `for dp in matching_dps` makes, in
\* order, each named by the id of the DataPoint passed
RECURSIVE MockCalls(_)
MockCalls(dps) ==
    IF dps = <<>> THEN <<>> ELSE <<Head(dps).id>> \o MockCalls(Tail(dps))

KeyAssetTypes == {T_DG, T_HVAC}
KeyTicks == {Combine(0, 0, 0), Combine(0, 23, 59)}
KeySeqIds == {1, 2}

\* one iteration of the while loop of generator_page
CallSinglePacket ==
    \E a \in KeyAssetTypes, t \in KeyTicks, seq \in KeySeqIds :
       LET dps == get_data_points_by_asset_type(a)
       IN /\ dps # <<>>
          /\ call' = [fn |-> "single_packet_json",
                      args |-> [asset_type |-> a, pld_id |-> P_1, t |-> t, seq |-> seq],
                      dps |-> dps,
                      result |-> single_packet_json(P_1, t, seq, dps),
                      calls |-> MockCalls(dps)]
          /\ UNCHANGED <<storeVars, pageVars, genVars, multiVars, sessions>>

\* one iteration of `for i in range(num_packets)` of multi_json_generator_page
CallFlatPacket ==
    \E a \in KeyAssetTypes, t \in KeyTicks :
       LET dps == get_data_points_by_asset_type(a)
       IN /\ dps # <<>>
          /\ call' = [fn |-> "flat_packet",
                      args |-> [asset_type |-> a, pld_id |-> P_1, t |-> t, seq |-> 0],
                      dps |-> dps,
                      result |-> flat_packet(P_1, a, t, dps),
                      calls |-> MockCalls(dps)]
          /\ UNCHANGED <<storeVars, pageVars, genVars, multiVars, sessions>>

InitPacketSpec == InitKeyStore /\ InitPage /\ InitGen /\ InitMultiIdle /\ InitApi
NextPacket == CallSinglePacket \/ CallFlatPacket
SpecPacket == InitPacketSpec /\ [][NextPacket]_vars

\* the map of a packet that holds the DataPoint values
ValuesOf(c) ==
    IF c.fn = "single_packet_json" THEN c.result.ext[1].sii["1"]
    ELSE c.result.parameters

\* the keys a packet shape puts into the map itself
FixedKeys(c) == IF c.fn = "single_packet_json" THEN {K_tmsp, K_evc, K_tms} ELSE {}

\* C18: in both packet shapes the value of a matching DataPoint stands under
\* its first identifier when it has identifiers and under the slug of its
\* name (spaces to underscores, lower case) otherwise, the map has no other
\* keys than these and the shape's fixed ones, and generate_mock_value is
\* called exactly once for each matching DataPoint of the packet.
C18_KeyAndOneCallPerDataPoint ==
    (call.fn \in {"single_packet_json", "flat_packet"}) =>
        LET m == ValuesOf(call)
            dps == call.dps
            KeyOf(dp) == IF Len(dp.identifiers) > 0 THEN dp.identifiers[1]
                         ELSE Lower(ReplaceSpace(dp.name))
        IN /\ dps = get_data_points_by_asset_type(call.args.asset_type)
           /\ \A i \in 1..Len(dps) :
                 /\ KeyOf(dps[i]) \in DOMAIN m
                 /\ m[KeyOf(dps[i])] = SynthValue(dps[i])
                 /\ Cardinality({j \in 1..Len(call.calls) : call.calls[j] = dps[i].id}) = 1
           /\ DOMAIN m = FixedKeys(call) \cup {KeyOf(dps[i]) : i \in 1..Len(dps)}
           /\ Len(call.calls) = Len(dps)

\* a flat packet for DG on the store ("A" with identifiers, "É t" without):
\* the values stand under the first identifier of "A" and under "é_t"
C18_Witness ==
    /\ call.fn = "flat_packet"
    /\ call.args.asset_type = T_DG
    /\ Len(data_points) = 2
    /\ data_points[1].name = N_A /\ data_points[2].name = N_Et
    /\ DOMAIN call.result.parameters = {I_q, <<"é","_","t">>}
    /\ call.calls = <<1, 2>>

\* an envelope packet for HVAC on the store ("B b", "C"): only "C" matches
C18_WitnessEnvelope ==
    /\ call.fn = "single_packet_json"
    /\ call.args.asset_type = T_HVAC
    /\ Len(data_points) = 2
    /\ data_points[1].name = N_B /\ data_points[2].name = N_C
    /\ DOMAIN call.result.ext[1].sii["1"] = {K_tmsp, K_evc, K_tms, I_x}
    /\ call.calls = <<2>>

-----------------------------------------------------------------------------
(* The envelope packets of a single-source run (SpecGen) *)

\* the fields of an envelope packet that no input reaches
ProtocolMetadata(p) ==
    [ver |-> p.ver, svc |-> p.svc, aid |-> p.aid, eid |-> p.eid, dvt |-> p.dvt,
     dvm |-> p.dvm, evt |-> p.evt, evc |-> p.evc, alt |-> p.alt,
     ext_ver |-> p.ext[1].ver, sii_evc |-> p.ext[1].sii["1"][K_evc]]

\* the k-th packet of the run is built for the k-th tick alone
BuiltForTick(p, k) ==
    LET tick == format_timestamp(FixedInstant(gen_in, k - 1))
        sii == p.ext[1].sii["1"]
    IN /\ p.tms = tick
       /\ sii[K_tmsp] = tick
       /\ sii[K_tms] = tick
       /\ p.pld = gen_in.pld_id
       /\ Len(p.ext) = 1 /\ DOMAIN p.ext[1].sii = {"1"}
       /\ ProtocolMetadata(p) = ProtocolMetadata(all_packets[1])

-----------------------------------------------------------------------------
(* The sort key of the multi-source output: utils.format_timestamp applied   *)
(* to two instants of the sequencer (pages/multi_json_generator.py 103, 121) *)

\* days around the end of a year, of a month and of a one-digit day number
SortDays == {0, 1, 9, 10, 31, 32}

\* offsets i * interval_seconds within a day (the interval is whole minutes)
SortOffsets == {0, 60, 540, 600, 3540, 3600, 35940, 36000, 86340}

\* start_datetime + timedelta(seconds = i * interval_seconds)
SortInstants == {current_timestamp_of(CombineMin(d), 1, o) : d \in SortDays, o \in SortOffsets}

\* format_timestamp applied to two instants
CallFormatTimestamp ==
    /\ call = NoCall
    /\ \E a \in SortInstants, b \in SortInstants :
          call' = [fn |-> "format_timestamp", args |-> <<a, b>>,
                   result |-> <<format_timestamp(a), format_timestamp(b)>>]
    /\ UNCHANGED <<storeVars, pageVars, genVars, multiVars, sessions>>

InitSortSpec == InitStoreEmpty /\ InitPage /\ InitGen /\ InitMultiIdle /\ InitApi
NextSort == CallFormatTimestamp
SpecSort == InitSortSpec /\ [][NextSort]_vars

\* datetime < datetime
TimeLess(a, b) == a # b /\ TimeLeq(a, b)

\* C20: sorting by the rendered timestamp is chronological: for two instants
\* a and b of the sequencer, a < b exactly when format_timestamp(a) is
\* lexicographically smaller than format_timestamp(b), and a = b exactly
\* when the two strings are equal.
C20_RenderingPreservesOrder ==
    (call.fn = "format_timestamp") =>
        LET a == call.args[1]
            b == call.args[2]
        IN /\ TimeLess(a, b) <=> StrLess(call.result[1], call.result[2])
           /\ (a = b) <=> (call.result[1] = call.result[2])

\* 09:59 of 1 February 2024 against 10:00 of the same day, and the last
\* minute of 2023 against the first of 2024, were compared
C20_Witness ==
    /\ call.fn = "format_timestamp"
    /\ \/ /\ call.args = <<[day |-> 32, sec |-> 35940, us |-> 0], [day |-> 32, sec |-> 36000, us |-> 0]>>
          /\ call.result[1] = <<"2","0","2","4","-","0","2","-","0","1","T","0","9",":","5","9",":","0","0","+","0","5","3","0">>
       \/ /\ call.args = <<[day |-> 0, sec |-> 86340, us |-> 0], [day |-> 1, sec |-> 0, us |-> 0]>>
          /\ call.result[2] = <<"2","0","2","4","-","0","1","-","0","1","T","0","0",":","0","0",":","0","0","+","0","5","3","0">>
    /\ StrLess(call.result[1], call.result[2])

-----------------------------------------------------------------------------
(* Termination of the fixed-interval loop: the script of generator_page runs *)
(* the while loop to its end within one run of the page                      *)

\* the interpreter keeps executing the loop body and leaves the loop when
\* its condition fails
SpecGenFair == SpecGen /\ WF_vars(GenLoopIter) /\ WF_vars(GenLoopExit)

\* the rendered instants of a fixed-interval run, from its three inputs
TickStrings(start_date, end_date, frequency_mins) ==
    LET window == (end_date - start_date) * SecondsPerDay + 23 * 3600 + 59 * 60
        n == (window \div (frequency_mins * 60)) + 1
    IN [k \in 1..n |->
          format_timestamp(AddSeconds(CombineMin(start_date), (k - 1) * frequency_mins * 60))]

\* the rendered instants the run has emitted
EmittedTicks == [k \in 1..Len(all_packets) |-> all_packets[k].tms]

\* C21: the fixed-interval loop terminates for every accepted input
\* (start_date <= end_date, frequency 1..60); the instants it emits are
\* strictly ascending, so without duplicates (each packet when it is
\* appended against the one before it, and the whole list when the run has
\* ended); and the sequence is a function of start_date, end_date and
\* frequency alone.
C21_LoopTerminatesAscending ==
    /\ (gen_pc = "loop") ~> (gen_pc = "done")
    /\ [](Len(all_packets) >= 2 =>
             StrLess(all_packets[Len(all_packets) - 1].tms,
                     all_packets[Len(all_packets)].tms))
    /\ [](gen_pc = "done" =>
             \A k \in 1..(Len(all_packets) - 1) :
                StrLess(all_packets[k].tms, all_packets[k + 1].tms))
    /\ []((gen_pc = "done" /\ matching_dps # <<>>) =>
             EmittedTicks = TickStrings(gen_in.start_date, gen_in.end_date,
                                        gen_in.frequency_mins))

\* a run over two days at 45 minutes has ended, for the asset type with one
\* matching DataPoint
C21_Witness ==
    /\ gen_pc = "done"
    /\ gen_in.start_date < gen_in.end_date
    /\ gen_in.frequency_mins = 45
    /\ gen_in.asset_type = T_HVAC
    /\ Len(all_packets) = 64
    /\ HasReport("success")

-----------------------------------------------------------------------------
(* Two sessions on the Data Points page: each session's script run reads the *)
(* store and writes it in separate statements, each on its own connection    *)
(* (data_points.py 210-225, database.py 52-65)                               *)

T_p == <<"p">>

RaceNames == {N_A, N_B}
RaceIdTexts == {I_x, I_xy}
RaceAssetNames == {T_P, T_p}

\* lines 210-220 of the add form's submit: the identifiers are parsed, the
\* two lookups read the store, and the branch is chosen
SessAddFormCheck(s) ==
    /\ sessions[s].pc = "idle"
    /\ \E dp_name \in RaceNames, dp_identifiers_str \in RaceIdTexts :
          LET identifiers == ParseList(dp_identifiers_str)
              duplicate_identifier ==
                  check_identifier_uniqueness(data_points, identifiers, None)
              existing_dp == get_data_point_by_name(dp_name)
          IN sessions' = [sessions EXCEPT ![s] =
                IF existing_dp # None
                THEN [pc |-> "idle", report |-> "name exists"]
                ELSE IF Truthy(duplicate_identifier)
                THEN [pc |-> "idle", report |-> "identifier in use"]
                ELSE [pc |-> "add_data_point", dp_name |-> dp_name,
                      identifiers |-> identifiers]]
    /\ UNCHANGED <<storeVars, pageVars, genVars, multiVars, call>>

\* line 221: add_data_point, on the store as it is now
SessAddFormInsert(s) ==
    /\ sessions[s].pc = "add_data_point"
    /\ LET added == add_data_point(data_points, dp_seq, sessions[s].dp_name,
                                   sessions[s].identifiers, <<T_DG>>, "boolean",
                                   None, None, None)
       IN /\ added.ok => dp_seq < MaxId
          /\ data_points' = added.rows
          /\ dp_seq' = added.seq
          /\ sessions' = [sessions EXCEPT ![s] =
                [pc |-> "idle",
                 report |-> IF added.ok THEN "added" ELSE "IntegrityError"]]
    /\ UNCHANGED <<asset_types, pageVars, genVars, multiVars, call>>

\* add_asset_type up to its SELECT (database.py 56-59)
SessAssetSelect(s) ==
    /\ sessions[s].pc = "idle"
    /\ \E name \in RaceAssetNames :
          sessions' = [sessions EXCEPT ![s] =
             IF \E i \in 1..Len(asset_types) : SqlLower(asset_types[i]) = Lower(name)
             THEN [pc |-> "idle", report |-> "already exists"]
             ELSE [pc |-> "insert_asset_type", name |-> name]]
    /\ UNCHANGED <<storeVars, pageVars, genVars, multiVars, call>>

\* add_asset_type from its INSERT on (database.py 62-65); the column is
\* UNIQUE under the default, case-sensitive collation
SessAssetInsert(s) ==
    /\ sessions[s].pc = "insert_asset_type"
    /\ LET name == sessions[s].name
           clash == \E i \in 1..Len(asset_types) : asset_types[i] = name
       IN /\ asset_types' = IF clash THEN asset_types ELSE Append(asset_types, name)
          /\ sessions' = [sessions EXCEPT ![s] =
                [pc |-> "idle", report |-> IF clash THEN "IntegrityError" ELSE "added"]]
    /\ UNCHANGED <<data_points, dp_seq, pageVars, genVars, multiVars, call>>

InitRaceSpec == InitStoreEmpty /\ InitPage /\ InitGen /\ InitMultiIdle /\ InitApi
NextRace ==
    \E s \in Sess :
       \/ SessAddFormCheck(s)
       \/ SessAddFormInsert(s)
       \/ SessAssetSelect(s)
       \/ SessAssetInsert(s)
SpecRace == InitRaceSpec /\ [][NextRace]_vars

\* C22: when two sessions interleave their add-DataPoint submissions (the
\* identifier check and add_data_point being separate steps), no two stored
\* DataPoints share an identifier; and two interleaved add_asset_type calls
\* never store two names that are equal ignoring case.
C22_UniqueUnderInterleaving ==
    /\ \A i, j \in 1..Len(data_points) :
          i # j => Range(data_points[i].identifiers)
                     \cap Range(data_points[j].identifiers) = {}
    /\ \A i, j \in 1..Len(asset_types) :
          i # j => Lower(asset_types[i]) # Lower(asset_types[j])

-----------------------------------------------------------------------------
(* More claims about the Data Points page (SpecStore) *)

\* C23: whenever the Data Points page is rendered with editing_dp_id set,
\* that id is the id of a DataPoint in the store, after any sequence of page
\* actions (click edit, submit, cancel, bulk upload, Delete All Data Points).
C23_EditingIdExists ==
    editing_dp_id # None => get_data_point_by_id(editing_dp_id[1]) # None

-----------------------------------------------------------------------------
(* Packets built on stores the add form can produce in which two field keys *)
(* coincide                                                                 *)

N_X   == <<"X">>
N_Tms == <<"T","m","s">>

\* rows the add form accepts one after another: no name and no identifier
\* is entered twice
CollideRows ==
    { [name |-> N_A, identifiers |-> <<I_x>>, asset_types |-> <<T_DG, T_HVAC>>],
      [name |-> N_X, identifiers |-> <<>>, asset_types |-> <<T_DG, T_HVAC>>],
      [name |-> N_Tms, identifiers |-> <<>>, asset_types |-> <<T_DG, T_HVAC>>],
      [name |-> N_B, identifiers |-> <<I_y>>, asset_types |-> <<T_DG, T_HVAC>>] }

CollideStores ==
    UNION { { StoreOf(args, <<>>) :
                args \in {q \in [1..n -> CollideRows] :
                             \A i, j \in 1..n : i # j => q[i] # q[j]} } :
            n \in 0..MaxKeyRows }

InitCollideSpec ==
    /\ asset_types = default_types
    /\ data_points \in CollideStores
    /\ dp_seq = Len(data_points)
    /\ InitPage /\ InitGen /\ InitMultiIdle /\ InitApi
SpecCollide == InitCollideSpec /\ [][NextPacket]_vars

\* C24: in every generated packet distinct matching DataPoints occupy
\* distinct keys and no DataPoint key overwrites a fixed field: the
\* parameters map of a flat packet has as many entries as the asset type
\* has matching DataPoints, and the sii["1"] map of an envelope packet has
\* that many entries plus tmsp, evc and tms, which keep their fixed values.
C24_DistinctKeysFixedFieldsKept ==
    (call.fn \in {"single_packet_json", "flat_packet"}) =>
        LET m == ValuesOf(call)
            dps == get_data_points_by_asset_type(call.args.asset_type)
            tick == format_timestamp(call.args.t)
        IN /\ \A i, j \in 1..Len(dps) : i # j => dp_key(dps[i]) # dp_key(dps[j])
           /\ Cardinality(DOMAIN m) = Len(dps) + Cardinality(FixedKeys(call))
           /\ call.fn = "single_packet_json" =>
                 /\ m[K_tmsp] = tick
                 /\ m[K_evc] = 300
                 /\ m[K_tms] = tick

\* C25: a bulk upload is all-or-nothing: when validation reports an error no
\* row is written; when the processing of a row fails (two rows of the
\* upload carrying the same new name) the store is left as it was before
\* the upload; otherwise every row is applied.
C25_BulkAllOrNothing ==
    [][\A df \in BulkFiles :
          BulkUploadWith(df) =>
             LET existing_names == {data_points[i].name : i \in 1..Len(data_points)}
                 done == ProcessRows(df, existing_names,
                                     [ok |-> TRUE, rows |-> data_points, seq |-> dp_seq])
             IN IF validate_bulk_upload(df) > 0 \/ ~done.ok
                THEN data_points' = data_points
                ELSE /\ data_points' = done.rows
                     /\ \A k \in 1..Len(df) :
                           \E i \in 1..Len(data_points') :
                              data_points'[i].name = df[k].name[1]]_vars

\* C26: opening the edit form of a stored DataPoint and submitting it with
\* no input changed leaves the stored record unchanged in every field; and
\* an edit of one DataPoint changes no other DataPoint.
C26_UnchangedEditIsNoOp ==
    [][(editing_dp_id # None /\ get_data_point_by_id(editing_dp_id[1]) # None) =>
          /\ EditFormSubmitWith(ShownIdentifiers) => data_points' = data_points
          /\ EditFormSubmit =>
                /\ Len(data_points') = Len(data_points)
                /\ \A i \in 1..Len(data_points) :
                      data_points[i].id # editing_dp_id[1] =>
                          data_points'[i] = data_points[i]]_vars

-----------------------------------------------------------------------------
(* More claims about the multi-source generator of pages/ (SpecMulti) *)

\* an asset type of the request for which packets are built
Processed(a) == HasPlds(a) /\ HasDps(a)

\* sum over the processed asset types of (source ids) x (packet count)
RECURSIVE ExpectedTotal(_)
ExpectedTotal(selected) ==
    IF selected = <<>> THEN 0
    ELSE (IF Processed(Head(selected))
          THEN Len(CleanedPlds(pld_inputs[Head(selected)])) * ClaimCount(Head(selected))
          ELSE 0) + ExpectedTotal(Tail(selected))

\* the timestamps of one source, in the order of the list
TimestampsOf(packets, a, pld) ==
    LET mine == OfSource(packets, a, pld)
    IN [k \in 1..Len(mine) |-> mine[k].timestamp]

\* C27: in a multi-source run without errors all source ids of one asset
\* type receive the same sequence of timestamps, each (asset type, source
\* id entry, timestamp) triple has exactly one flat packet, and the
\* delivered list holds exactly the sum over the processed asset types of
\* (number of non-empty source ids) x (packet count of the asset type)
\* packets: the merge neither drops nor duplicates a packet.
C27_MergeKeepsEveryPacket ==
    (PagesDone /\ multi_download # NoDownload) =>
        LET out == multi_download[1]
        IN /\ ~has_errors
           /\ Len(out) = ExpectedTotal(multi_in.selected_asset_types)
           /\ \A a \in Selected : Processed(a) =>
                 LET cleaned == CleanedPlds(pld_inputs[a])
                 IN \A j \in 1..Len(cleaned) :
                       LET copies == Cardinality({i \in 1..Len(cleaned) :
                                                     cleaned[i] = cleaned[j]})
                           ts == TimestampsOf(out, a, cleaned[j])
                       IN /\ ts = TimestampsOf(out, a, cleaned[1])
                          /\ Len(ts) = copies * ClaimCount(a)
                          /\ \A k \in 1..Len(ts) :
                                Cardinality({m \in 1..Len(ts) : ts[m] = ts[k]}) = copies
           /\ \A a \in Selected : ~Processed(a) => OfAsset(out, a) = <<>>

\* two asset types, the first with two source ids, over two days at 480
\* minutes: 2 x 5 + 1 x 5 packets delivered
C27_Witness ==
    /\ PagesDone
    /\ multi_download # NoDownload
    /\ Len(multi_in.selected_asset_types) = 2
    /\ \A a \in Selected : Processed(a) /\ pld_frequencies[a] = 480
    /\ Len(CleanedPlds(pld_inputs[multi_in.selected_asset_types[1]])) = 2
    /\ Len(CleanedPlds(pld_inputs[multi_in.selected_asset_types[2]])) = 1
    /\ multi_in.end_date = multi_in.start_date + 1
    /\ Len(multi_download[1]) = 15

\* str <= str
StrLeq(a, b) == a = b \/ StrLess(a, b)

\* C28: for a window with start_date <= end_date and a positive frequency
\* every timestamp of the count-based sequencer lies in the window, at or
\* after 00:00:00 of start_date and not after the end of end_date, and the
\* timestamps of one source are strictly ascending.
C28_CountBasedWithinWindow ==
    (PagesDone /\ multi_in.start_date <= multi_in.end_date) =>
        /\ \A k \in 1..Len(multi_packets) :
              /\ StrLeq(format_timestamp(CombineMin(multi_in.start_date)),
                        multi_packets[k].timestamp)
              /\ StrLeq(multi_packets[k].timestamp,
                        format_timestamp(CombineMax(multi_in.end_date)))
        /\ \A a \in Selected : Processed(a) =>
              \A j \in 1..Len(CleanedPlds(pld_inputs[a])) :
                 LET ts == TimestampsOf(multi_packets, a, CleanedPlds(pld_inputs[a])[j])
                 IN \A k \in 1..(Len(ts) - 1) : StrLess(ts[k], ts[k + 1])

\* two days at 1439 minutes: the second and last timestamp of a source is
\* 23:59:00 of the first day
C28_Witness ==
    /\ PagesDone
    /\ multi_in.end_date = multi_in.start_date + 1
    /\ \E a \in Selected :
          /\ Processed(a) /\ pld_frequencies[a] = 1439
          /\ TimestampsOf(multi_packets, a, CleanedPlds(pld_inputs[a])[1]) =
                <<format_timestamp(CombineMin(multi_in.start_date)),
                  format_timestamp(Combine(multi_in.start_date, 23, 59))>>

-----------------------------------------------------------------------------
(* The two sequencing policies run on the same window and frequency:         *)
(* the while loop of app_pages/generator.py 49-83 and the counted loop of   *)
(* pages/multi_json_generator.py 70-104                                     *)

MaxPolicyDays == 2
PolicyFreqs == 1..60

\* at most `budget` iterations of `while current_time <= end_datetime: ...
\* current_time += timedelta(minutes=frequency_mins)` on the loop state
\* st = [t, acc]: the current time and the rendered instants so far
RECURSIVE LoopSteps(_, _, _, _)
LoopSteps(st, end_datetime, frequency_mins, budget) ==
    IF budget = 0 \/ ~LoopCond(st.t, end_datetime) THEN st
    ELSE LoopSteps([t |-> NextTick(st.t, frequency_mins),
                    acc |-> Append(st.acc, format_timestamp(st.t))],
                   end_datetime, frequency_mins, budget - 1)

\* the whole loop, evaluated in blocks of 64 iterations
RECURSIVE FixedIntervalLoop(_, _, _)
FixedIntervalLoop(st, end_datetime, frequency_mins) ==
    IF ~LoopCond(st.t, end_datetime) THEN st.acc
    ELSE FixedIntervalLoop(LoopSteps(st, end_datetime, frequency_mins, 64),
                           end_datetime, frequency_mins)

fixed_interval_timestamps(start_date, end_date, frequency_mins) ==
    FixedIntervalLoop([t |-> start_datetime_of(start_date), acc |-> <<>>],
                      end_datetime_of(end_date), frequency_mins)

\* the rendered instants of `for i in range(num_packets)`
count_based_timestamps(start_date, end_date, frequency_minutes) ==
    LET start_datetime == CombineMin(start_date)
        total == total_seconds(CombineMax(end_date), start_datetime)
        interval == interval_seconds_of(frequency_minutes)
        n == num_packets_of(total, interval)
    IN [k \in 1..n |->
          format_timestamp(current_timestamp_of(start_datetime, k - 1, interval))]

\* both generators asked for the same window and frequency
CallBothPolicies ==
    /\ call = NoCall
    /\ \E sd \in 0..(MaxPolicyDays - 1), ed \in 0..(MaxPolicyDays - 1), f \in PolicyFreqs :
          /\ sd <= ed
          /\ call' = [fn |-> "policies",
                      args |-> [start_date |-> sd, end_date |-> ed, frequency |-> f],
                      fixed |-> fixed_interval_timestamps(sd, ed, f),
                      counted |-> count_based_timestamps(sd, ed, f)]
    /\ UNCHANGED <<storeVars, pageVars, genVars, multiVars, sessions>>

InitPolicySpec == InitStoreSnapshot /\ InitPage /\ InitGen /\ InitMultiIdle /\ InitApi
NextPolicy == CallBothPolicies
SpecPolicy == InitPolicySpec /\ [][NextPolicy]_vars

\* C29: the two sequencing policies differ by exactly the last tick: for a
\* window of D >= 1 days and a frequency of 1..60 minutes the count-based
\* policy emits one timestamp fewer than the fixed-interval policy, and its
\* timestamps are the fixed-interval ones with the last one removed.
C29_PoliciesDifferByLastTick ==
    (call.fn = "policies") =>
        /\ Len(call.counted) = Len(call.fixed) - 1
        /\ call.counted = SubSeq(call.fixed, 1, Len(call.fixed) - 1)

\* one day at 60 minutes: 24 fixed-interval timestamps, the last at 23:00,
\* and the first 23 of them from the count-based policy
C29_Witness ==
    /\ call.fn = "policies"
    /\ call.args = [start_date |-> 0, end_date |-> 0, frequency |-> 60]
    /\ Len(call.fixed) = 24
    /\ Len(call.counted) = 23
    /\ call.fixed[24] = format_timestamp(Combine(0, 23, 0))
    /\ call.counted[23] = format_timestamp(Combine(0, 22, 0))

-----------------------------------------------------------------------------
(* The single-source generator of app_main.py (553-601) next to the one of   *)
(* app_pages/generator.py (36-83), both run on the same store and inputs     *)

\* dp['identifiers'] as the row holds it: the JSON text of the list
RawIdentifiers(dp) == json_dumps(dp.identifiers)

\* the key taken from the slug of the name whatever the identifiers are
main_dp_key_Slug(dp) == Lower(ReplaceSpace(dp.name))

\* app_main.py: identifiers = json.loads(dp['identifiers'] or '[]');
\* key = identifiers[0] if identifiers else the slug of the name
main_dp_key(dp) ==
    LET raw == RawIdentifiers(dp)
        identifiers == json_loads(IF raw = <<>> THEN <<"[", "]">> ELSE raw)
    IN IF identifiers # <<>> THEN identifiers[1]
       ELSE Lower(ReplaceSpace(dp.name))

\* app_main.py: for dp in matching_dps: sii_data[key] = generate_mock_value(dp)
RECURSIVE main_FillParameters(_, _)
main_FillParameters(d, dps) ==
    IF dps = <<>> THEN d
    ELSE main_FillParameters(DictSet(d, main_dp_key(Head(dps)), SynthValue(Head(dps))),
                             Tail(dps))

\* app_main.py: one envelope packet
main_single_packet_json(pld_id, t, seq, dps) ==
    LET sii_data ==
            main_FillParameters(
                (K_tmsp :> format_timestamp(t)) @@ (K_evc :> 300)
                    @@ (K_tms :> format_timestamp(t)),
                dps)
    IN [ver |-> "1.0", pld |-> pld_id, svc |-> "svc33338597",
        aid |-> "A173378384", eid |-> "2109801", dvt |-> "jvt1443",
        dvm |-> "JVT1443", evt |-> "EV", tms |-> format_timestamp(t),
        evc |-> "300", seqid |-> seq, alt |-> None,
        ext |-> << [ver |-> "3.0", sii |-> ("1" :> sii_data)] >>]

\* at most `budget` iterations of the while loop of a generator on the loop
\* state st = [t, seq, acc]; main tells which file's loop body runs
RECURSIVE PacketLoopSteps(_, _, _, _, _, _)
PacketLoopSteps(main, st, end_datetime, form, dps, budget) ==
    IF budget = 0 \/ ~LoopCond(st.t, end_datetime) THEN st
    ELSE PacketLoopSteps(main,
            [t |-> NextTick(st.t, form.frequency_mins),
             seq |-> NextSeqId(st.seq),
             acc |-> Append(st.acc,
                        IF main
                        THEN main_single_packet_json(form.pld_id, st.t, st.seq, dps)
                        ELSE single_packet_json(form.pld_id, st.t, st.seq, dps))],
            end_datetime, form, dps, budget - 1)

\* the whole loop, evaluated in blocks of 64 iterations
RECURSIVE PacketLoop(_, _, _, _, _)
PacketLoop(main, st, end_datetime, form, dps) ==
    IF ~LoopCond(st.t, end_datetime) THEN st.acc
    ELSE PacketLoop(main, PacketLoopSteps(main, st, end_datetime, form, dps, 64),
                    end_datetime, form, dps)

\* `if submitted:` of a generator page to its end: what the run reports and
\* the list it built
generator_run(main, form) ==
    LET dps == get_data_points_by_asset_type(form.asset_type)
    IN IF PldMissing(form.pld_id)
       THEN [report |-> {<<"error", "PLD ID is a required field.">>}, packets |-> <<>>]
       ELSE IF DateOrderInvalid(form.start_date, form.end_date)
       THEN [report |-> {<<"error", "End date must be after the start date.">>},
             packets |-> <<>>]
       ELSE IF dps = <<>>
       THEN [report |-> {<<"info", "Generating data">>,
                         <<"warning", "No data points found">>}, packets |-> <<>>]
       ELSE LET all == PacketLoop(main,
                          [t |-> start_datetime_of(form.start_date), seq |-> FirstSeqId,
                           acc |-> <<>>],
                          end_datetime_of(form.end_date), form, dps)
            IN [report |-> {<<"info", "Generating data">>,
                            IF all = <<>>
                            THEN <<"warning", "No packets were generated">>
                            ELSE <<"success", "Successfully generated">>},
                packets |-> all]

EquivAssetTypes == {T_DG, T_HVAC}
EquivFreqs == {7, 30, 45, 60}

\* the same request submitted to both pages
CallBothGenerators ==
    /\ call = NoCall
    /\ \E a \in EquivAssetTypes, p \in GenPldChoices, sd \in Dates, ed \in Dates,
          f \in EquivFreqs :
          LET form == [asset_type |-> a, pld_id |-> p, start_date |-> sd,
                       end_date |-> ed, frequency_mins |-> f]
          IN call' = [fn |-> "generators", args |-> form,
                      pages |-> generator_run(FALSE, form),
                      main |-> generator_run(TRUE, form)]
    /\ UNCHANGED <<storeVars, pageVars, genVars, multiVars, sessions>>

InitEquivSpec == InitKeyStore /\ InitPage /\ InitGen /\ InitMultiIdle /\ InitApi
NextEquiv == CallBothGenerators
SpecEquiv == InitEquivSpec /\ [][NextEquiv]_vars

\* the field keys of an envelope packet
FieldKeys(p) == DOMAIN p.ext[1].sii["1"]

\* C30: the single-source generator of app_main.py and the one of
\* app_pages/generator.py are equivalent: on the same store and the same
\* inputs they accept or reject the request alike and build packet lists
\* of the same length with the same timestamps, seqids and field keys.
C30_GeneratorsEquivalent ==
    (call.fn = "generators") =>
        /\ call.main.report = call.pages.report
        /\ Len(call.main.packets) = Len(call.pages.packets)
        /\ \A k \in 1..Len(call.pages.packets) :
              LET p == call.pages.packets[k]
                  q == call.main.packets[k]
              IN /\ q.tms = p.tms
                 /\ q.seqid = p.seqid
                 /\ q.pld = p.pld
                 /\ FieldKeys(q) = FieldKeys(p)
                 /\ DOMAIN q = DOMAIN p

\* one day at 45 minutes for DG on the store of "A" (identifiers q, y) and
\* "B b" (no identifiers): both pages built 32 packets whose keys are the
\* first identifier "q" and the slug "b_b"
C30_Witness ==
    /\ call.fn = "generators"
    /\ call.args.asset_type = T_DG
    /\ call.args.frequency_mins = 45
    /\ call.args.start_date = call.args.end_date
    /\ Len(call.main.packets) = 32
    /\ Len(call.pages.packets) = 32
    /\ FieldKeys(call.main.packets[32]) =
          {K_tmsp, K_evc, K_tms, I_q, <<"b","_","b">>}

====
